---- MODULE Spec2Model ----
(***************************************************************************)
(* GridShare front end: the grid topology / result-overlay component       *)
(* (GridDisplay), the cross-framework reconciler (ComparisonCharts), the   *)
(* results viewer (ScenarioResultsViewer), LoginForm, ScenarioList and the *)
(* item lists of ScenarioForm.                                             *)
(*                                                                         *)
(* Representation.  A JavaScript value of a payload field is a record      *)
(* [t, v]: t is its type tag ("num", "numstr" a string holding a number,   *)
(* "str" any other string, "null", "undef" a missing field) and v the      *)
(* number in thousandths (12.345 is 12345), 0 for the tags without one.    *)
(* A label is a sequence of lines; a line is a record [tag, txt, dp, val]: *)
(* tag names the line ("Bus", "LMP", ...), txt its text part and val the   *)
(* digits printed with dp decimals.                                        *)
(***************************************************************************)
EXTENDS Integers, Sequences, FiniteSets, TLC

VARIABLES
    scenarioData,          \* GridDisplay prop: the scenario, or NoScenario
    simulationResultData,  \* GridDisplay prop: the result payload, or NoResult
    nodes,                 \* useNodesState: sequence of node records
    edges,                 \* useEdgesState: sequence of edge records
    threw,                 \* an overlay updater raised a TypeError (render aborted)
    onlySuccess,           \* history: every result given to the graph since it was built was usable
    mounted,               \* GridDisplay has been mounted (its effects have run once)
    traditionalResult,     \* ComparisonCharts prop
    causationResult,       \* ComparisonCharts prop
    charts,                \* what ComparisonCharts last rendered
    scenarioId,            \* ScenarioResultsViewer prop (0: the viewer is not mounted)
    simulationRuns,        \* ScenarioResultsViewer state: the runs listed
    isLoadingList,
    listError,
    selectedResultDetail,  \* the payload shown in the detail view, or NoResult
    isLoadingDetail,
    detailError,
    compareTradResultId,   \* run selected for the traditional slot (0: null)
    compareCausResultId,   \* run selected for the causation slot (0: null)
    compareTradResultDetails,  \* payload loaded in the traditional slot, or NoResult
    compareCausResultDetails,  \* payload loaded in the causation slot, or NoResult
    showComparisonView,
    isLoadingCompare,
    pending,               \* requests of the viewer in flight (a sequence, answered in any order)
    username,              \* LoginForm state
    password,
    message,
    localStorage,          \* emds_token / emds_user_id
    onLoginSuccessCalls,   \* argument lists the onLoginSuccess prop was called with
    loginRequests,         \* login requests in flight (the bodies sent)
    listProps,             \* ScenarioList props [userId, refreshKey], or NoProps before it is mounted
    scenarios,             \* ScenarioList state: the scenarios displayed
    isLoading,
    error,
    scenarioRequests,      \* scenario-list requests in flight (a sequence, answered in any order)
    issued,                \* history: number of scenario-list requests issued so far
    generators,            \* ScenarioForm state: the generator items
    loads,
    lines

gridVars == <<scenarioData, simulationResultData, nodes, edges, threw, onlySuccess, mounted>>
cmpVars == <<traditionalResult, causationResult, charts>>
viewerVars ==
    <<scenarioId, simulationRuns, isLoadingList, listError, selectedResultDetail, isLoadingDetail,
      detailError, compareTradResultId, compareCausResultId, compareTradResultDetails,
      compareCausResultDetails, showComparisonView, isLoadingCompare, pending>>
loginVars == <<username, password, message, localStorage, onLoginSuccessCalls, loginRequests>>
listVars == <<listProps, scenarios, isLoading, error, scenarioRequests, issued>>
formVars == <<generators, loads, lines>>
vars == <<gridVars, cmpVars, viewerVars, loginVars, listVars, formVars>>

(***************************************************************************)
(* Bounds of the model.                                                    *)
(***************************************************************************)
MaxBuses == 2        \* num_buses ranges over 0..MaxBuses
MaxGens == 2         \* generator_data holds 0..MaxGens generators
MaxLabelLines == 4   \* results are supplied while every label is shorter than this
MaxDetails == 2      \* length of the per-entity detail lists given to ComparisonCharts

(***************************************************************************)
(* JavaScript values.                                                      *)
(***************************************************************************)
Num(n) == [t |-> "num", v |-> n]
NumStr(n) == [t |-> "numstr", v |-> n]
Str == [t |-> "str", v |-> 0]
Null == [t |-> "null", v |-> 0]
Undef == [t |-> "undef", v |-> 0]

Abs(n) == IF n < 0 THEN 0 - n ELSE n

\* Round n / unit to the nearest integer, halves away from zero.
RoundDiv(n, unit) ==
    IF n >= 0 THEN (2 * n + unit) \div (2 * unit)
    ELSE 0 - ((2 * (0 - n) + unit) \div (2 * unit))

Pow10(k) == IF k = 0 THEN 1 ELSE IF k = 1 THEN 10 ELSE IF k = 2 THEN 100 ELSE 1000

\* Number.prototype.toFixed(dp) of a number held in thousandths: the digits
\* printed, as an integer count of 10^-dp.
toFixed(n, dp) == RoundDiv(n, Pow10(3 - dp))

Line(tag, txt, dp, val) == [tag |-> tag, txt |-> txt, dp |-> dp, val |-> val]

\* x?.toFixed(dp): "undefined" for null / undefined, the digits for a
\* number, and a TypeError for every other value (strings have no toFixed).
OptToFixed(x, dp) ==
    IF x.t \in {"null", "undef"} THEN [k |-> "undefined", val |-> 0]
    ELSE IF x.t = "num" THEN [k |-> "fixed", val |-> toFixed(x.v, dp)]
    ELSE [k |-> "throw", val |-> 0]

\* x.toFixed(dp) without optional chaining: null / undefined throw too.
MustToFixed(x, dp) ==
    IF x.t = "num" THEN [k |-> "fixed", val |-> toFixed(x.v, dp)]
    ELSE [k |-> "throw", val |-> 0]

\* ToNumber coercion used by the relational operators and by division:
\* a numeric string and null convert, the rest is NaN.
ToNumber(x) ==
    IF x.t \in {"num", "numstr"} THEN [nan |-> FALSE, v |-> x.v]
    ELSE IF x.t = "null" THEN [nan |-> FALSE, v |-> 0]
    ELSE [nan |-> TRUE, v |-> 0]

\* x > 0 in JavaScript.
GreaterThanZero(x) == ~ToNumber(x).nan /\ ToNumber(x).v > 0

(***************************************************************************)
(* Sequence helpers (Array.prototype.map / find).                          *)
(***************************************************************************)
RECURSIVE FindById(_, _)
\* arr.find(e => e.id === id): the first element with that id, as a
\* one-element sequence, or <<>> for undefined.
FindById(arr, id) ==
    IF arr = <<>> THEN <<>>
    ELSE IF Head(arr).id = id THEN <<Head(arr)>>
    ELSE FindById(Tail(arr), id)

RECURSIVE Concat(_)
Concat(ss) == IF ss = <<>> THEN <<>> ELSE Head(ss) \o Concat(Tail(ss))

\* An optional payload section: <<>> when missing, <<x>> when it holds x.
Absent == <<>>
Some(x) == <<x>>

(***************************************************************************)
(* GridDisplay: constants.                                                 *)
(***************************************************************************)
BUS_Y_POSITION == 200
GEN_LOAD_Y_OFFSET == 120

\* A CSS border `<width> solid <colour>`.
Border(w, c) == [w |-> w, c |-> c]
NoBorder == Border("", "")

\* baseNodeStyles[key]: the keys are bus, generator and load; any other key
\* is undefined.  `base` stands for the colour / padding / size entries.
baseNodeStyles(key) ==
    IF key = "bus" THEN [defined |-> TRUE, base |-> "bus", border |-> Border("1px", "#0056b3")]
    ELSE IF key = "generator" THEN [defined |-> TRUE, base |-> "generator", border |-> Border("1px", "#1e7e34")]
    ELSE IF key = "load" THEN [defined |-> TRUE, base |-> "load", border |-> Border("1px", "#c82333")]
    ELSE [defined |-> FALSE, base |-> "", border |-> NoBorder]

\* { ...baseNodeStyles.<key> } as a node style: borderColor is not a key of it.
NodeStyleOf(key) ==
    [base |-> baseNodeStyles(key).base, border |-> baseNodeStyles(key).border, borderColor |-> "unset"]

\* { strokeWidth: 2, stroke: '#888' }
BaseLineStyle == [defined |-> TRUE, stroke |-> "#888", strokeWidth |-> [n |-> 2, d |-> 1]]
NoStyle == [defined |-> FALSE, stroke |-> "", strokeWidth |-> [n |-> 0, d |-> 1]]

NoScenario == [absent |-> "scenario"]
NoResult == [absent |-> "result"]
NoLabel == <<>>

(***************************************************************************)
(* GridDisplay: the build effect (scenarioData -> nodes, edges).           *)
(* An id is the sequence of its dash-separated parts: <<"bus", "1">> is    *)
(* `bus-1`, <<"edge", "gen", "G1", "bus", "1">> is `edge-gen-G1-bus-1`.    *)
(***************************************************************************)
\* Variant of FindBusDetails that takes the n-th entry of the array.
FindBusDetailsByPosition(scenarioBuses, n) ==
    IF n \in 1..Len(scenarioBuses) THEN scenarioBuses[n] ELSE [id |-> 0, name |-> ""]

\* scenarioBuses.find(b => b.id === n) || {}
FindBusDetails(scenarioBuses, n) ==
    IF FindById(scenarioBuses, n) = <<>> THEN [id |-> 0, name |-> ""]
    ELSE Head(FindById(scenarioBuses, n))

BusNodeId(n) == <<"bus", ToString(n)>>

BusLabel(scenario, n) ==
    <<Line("Bus", FindBusDetails(scenario.buses, n).name, 0, n)>>

BusPosition(n) == [x |-> n * 220, y |-> BUS_Y_POSITION]

BusNode(scenario, n) ==
    [id |-> BusNodeId(n),
     label |-> BusLabel(scenario, n),
     originalLabel |-> BusLabel(scenario, n),
     position |-> BusPosition(n),
     style |-> NodeStyleOf("bus")]

\* Variant of HasBus that takes every bus number as known.
HasBusUnchecked(scenario, busNum) == TRUE

\* busMap.get(busNum) is defined exactly for the synthesized buses 1..num_buses
HasBus(scenario, busNum) == busNum \in 1..scenario.num_buses

\* index is the 0-based position in generator_data / load_data; sign is -1
\* for a generator (above the bus axis) and 1 for a load (below it).
AttachedPosition(scenario, busNum, index, sign) ==
    IF HasBus(scenario, busNum)
    THEN [x |-> BusPosition(busNum).x + ((index % 3) - 1) * 60,
          y |-> BusPosition(busNum).y + sign * GEN_LOAD_Y_OFFSET]
    ELSE [x |-> 50 + index * 160, y |-> BUS_Y_POSITION + sign * GEN_LOAD_Y_OFFSET]

GenNodeId(gen) == <<"gen", gen.id>>
GenLabel(gen) == <<Line("Gen", gen.id, 0, 0), Line("MW", "", 0, gen.capacity_mw)>>

GenNode(scenario, index) ==
    LET gen == scenario.generator_data[index + 1] IN
    [id |-> GenNodeId(gen),
     label |-> GenLabel(gen),
     originalLabel |-> GenLabel(gen),
     position |-> AttachedPosition(scenario, gen.bus_id, index, -1),
     style |-> NodeStyleOf("generator")]

LoadNodeId(load) == <<"load", load.id>>
LoadLabel(load) == <<Line("Load", load.id, 0, 0), Line("MW", "", 0, load.demand_mw)>>

LoadNode(scenario, index) ==
    LET load == scenario.load_data[index + 1] IN
    [id |-> LoadNodeId(load),
     label |-> LoadLabel(load),
     originalLabel |-> LoadLabel(load),
     position |-> AttachedPosition(scenario, load.bus_id, index, 1),
     style |-> NodeStyleOf("load")]

\* A connection edge: no label, no style and no animated property.
ConnectionEdge(id, source, target) ==
    [id |-> id, source |-> source, target |-> target, type |-> "smoothstep",
     label |-> NoLabel, originalLabel |-> NoLabel, style |-> NoStyle, animated |-> "unset"]

\* Variant of GenEdges that draws the edge without looking the bus up.
GenEdgesUnresolved(scenario, index) ==
    LET gen == scenario.generator_data[index + 1] IN
    <<[id |-> <<"edge", "gen", gen.id, "bus", ToString(gen.bus_id)>>,
       source |-> <<"gen", gen.id>>, target |-> <<"bus", ToString(gen.bus_id)>>,
       type |-> "smoothstep", label |-> <<>>, originalLabel |-> <<>>,
       style |-> NoStyle, animated |-> "unset"]>>

GenEdges(scenario, index) ==
    LET gen == scenario.generator_data[index + 1] IN
    IF HasBus(scenario, gen.bus_id)
    THEN <<ConnectionEdge(<<"edge">> \o GenNodeId(gen) \o BusNodeId(gen.bus_id),
                          GenNodeId(gen), BusNodeId(gen.bus_id))>>
    ELSE <<>>

\* Variant of LoadEdges that draws the edge from the load to the bus.
LoadEdgesReversed(scenario, index) ==
    LET load == scenario.load_data[index + 1] IN
    IF load.bus_id \in 1..scenario.num_buses
    THEN <<[id |-> <<"edge", "load", load.id, "bus", ToString(load.bus_id)>>,
            source |-> <<"load", load.id>>, target |-> <<"bus", ToString(load.bus_id)>>,
            type |-> "smoothstep", label |-> <<>>, originalLabel |-> <<>>,
            style |-> NoStyle, animated |-> "unset"]>>
    ELSE <<>>

LoadEdges(scenario, index) ==
    LET load == scenario.load_data[index + 1] IN
    IF HasBus(scenario, load.bus_id)
    THEN <<ConnectionEdge(<<"edge">> \o LoadNodeId(load) \o BusNodeId(load.bus_id),
                          BusNodeId(load.bus_id), LoadNodeId(load))>>
    ELSE <<>>

LineLabel(line) == <<Line("Line", line.id, 0, 0), Line("Limit", "", 0, line.flow_limit_mw)>>

\* Variant of LineEdges that asks for one resolved endpoint only.
LineEdgesEitherEnd(scenario, k) ==
    LET line == scenario.transmission_data[k] IN
    IF line.from_bus_id \in 1..scenario.num_buses \/ line.to_bus_id \in 1..scenario.num_buses
    THEN <<[id |-> <<"line", line.id>>,
            source |-> <<"bus", ToString(line.from_bus_id)>>,
            target |-> <<"bus", ToString(line.to_bus_id)>>,
            type |-> "straight",
            label |-> <<>>, originalLabel |-> <<>>,
            style |-> [defined |-> TRUE, stroke |-> "#888", strokeWidth |-> [n |-> 2, d |-> 1]],
            animated |-> "unset"]>>
    ELSE <<>>

\* The line edge stores its base label in the edge's own originalLabel
\* property; the edge has no `data` property.
LineEdges(scenario, k) ==
    LET line == scenario.transmission_data[k] IN
    IF HasBus(scenario, line.from_bus_id) /\ HasBus(scenario, line.to_bus_id)
    THEN <<[id |-> <<"line", line.id>>,
            source |-> BusNodeId(line.from_bus_id), target |-> BusNodeId(line.to_bus_id),
            type |-> "straight",
            label |-> LineLabel(line), originalLabel |-> LineLabel(line),
            style |-> BaseLineStyle, animated |-> "unset"]>>
    ELSE <<>>

BuildNodes(scenario) ==
    IF scenario = NoScenario THEN <<>>
    ELSE [i \in 1..scenario.num_buses |-> BusNode(scenario, i)]
         \o [i \in 1..Len(scenario.generator_data) |-> GenNode(scenario, i - 1)]
         \o [i \in 1..Len(scenario.load_data) |-> LoadNode(scenario, i - 1)]

\* Variant of BuildEdges that patches: an edge already held under the same
\* id is kept as it is.
BuildEdgesPatching(scenario) ==
    IF scenario = NoScenario THEN <<>>
    ELSE LET fresh == Concat([i \in 1..Len(scenario.generator_data) |-> GenEdges(scenario, i - 1)])
                      \o Concat([i \in 1..Len(scenario.load_data) |-> LoadEdges(scenario, i - 1)])
                      \o Concat([k \in 1..Len(scenario.transmission_data) |-> LineEdges(scenario, k)])
         IN [i \in 1..Len(fresh) |->
                IF \E k \in 1..Len(edges) : edges[k].id = fresh[i].id
                THEN edges[CHOOSE k \in 1..Len(edges) : edges[k].id = fresh[i].id]
                ELSE fresh[i]]

BuildEdges(scenario) ==
    IF scenario = NoScenario THEN <<>>
    ELSE Concat([i \in 1..Len(scenario.generator_data) |-> GenEdges(scenario, i - 1)])
         \o Concat([i \in 1..Len(scenario.load_data) |-> LoadEdges(scenario, i - 1)])
         \o Concat([k \in 1..Len(scenario.transmission_data) |-> LineEdges(scenario, k)])

(***************************************************************************)
(* GridDisplay: the overlay effect (simulationResultData -> label, style). *)
(* A result payload is a record                                            *)
(*   status, simulation_type, framework_type,                              *)
(*   fin_nodal_prices   financial_results.system_summary.nodal_prices_mwh: *)
(*                      Absent, or a keyed mapping [Bus_, plain], each a   *)
(*                      sequence giving the value under key Bus_<n> / <n>  *)
(*   op_nodal_prices    operational_results.nodal_prices_mwh: Absent, or   *)
(*                      an array of values                                 *)
(*   caus_generator_details   final_causation_financials.generator_details *)
(*   fin_line_details, op_line_details   <section>.line_details            *)
(***************************************************************************)
Usable(result) == result # NoResult /\ result.status = "success"

\* node.id.split('-')[0]
IdPrefix(id) == id[1]

\* parseInt(node.id.split('-')[1], 10)
BusNumOf(id) == CHOOSE n \in 0..(MaxBuses + 2) : ToString(n) = id[2]

\* Reset branch, nodes: label back to data.originalLabel, style spread over
\* with baseNodeStyles[<id prefix>] (nothing is spread when that is undefined).
ResetNode(n) ==
    LET b == baseNodeStyles(IdPrefix(n.id)) IN
    [n EXCEPT !.label = n.originalLabel,
              !.style = IF b.defined
                        THEN [n.style EXCEPT !.base = b.base, !.border = b.border]
                        ELSE n.style]

\* edge.data?.originalLabel: the edges are built without a data property.
EdgeDataOriginalLabel(e) == NoLabel

\* edge.data?.originalLabel || edge.label
EdgeLabelSource(e) == IF EdgeDataOriginalLabel(e) # NoLabel THEN EdgeDataOriginalLabel(e) ELSE e.label

\* Reset branch, edges.
ResetEdge(e) ==
    [e EXCEPT !.label = EdgeLabelSource(e), !.style = BaseLineStyle, !.animated = "false"]

\* Value of an array element / mapping key; out of range is undefined.
At(seq, i) == IF i \in 1..Len(seq) THEN seq[i] ELSE Undef

\* Variant of nodalPricesDict with the operands of || exchanged.
nodalPricesDictArrayFirst(result) ==
    IF result.op_nodal_prices # Absent THEN [shape |-> "array", src |-> result.op_nodal_prices[1]]
    ELSE IF result.fin_nodal_prices # Absent THEN [shape |-> "object", src |-> result.fin_nodal_prices[1]]
    ELSE [shape |-> "undefined", src |-> Absent]

\* simulationResultData.financial_results?.system_summary?.nodal_prices_mwh ||
\* simulationResultData.operational_results?.nodal_prices_mwh
nodalPricesDict(result) ==
    IF result.fin_nodal_prices # Absent THEN [shape |-> "object", src |-> result.fin_nodal_prices[1]]
    ELSE IF result.op_nodal_prices # Absent THEN [shape |-> "array", src |-> result.op_nodal_prices[1]]
    ELSE [shape |-> "undefined", src |-> Absent]

\* Variant of OrFixed that applies || to the numbers: a zero is falsy.
OrFixedZeroFalsy(a, b) == IF a.k = "undefined" \/ (a.k = "fixed" /\ a.val = 0) THEN b ELSE a

\* a || b for two x?.toFixed(2) results: a string of digits is truthy.
OrFixed(a, b) == IF a.k = "undefined" THEN b ELSE a

\* The text after `LMP: $`: k is "N/A", "undefined", "fixed" or "throw".
ResolveLmp(result, busNum) ==
    LET dict == nodalPricesDict(result) IN
    IF dict.shape = "array" /\ busNum - 1 < Len(dict.src)
    THEN OptToFixed(dict.src[busNum], 2)
    ELSE IF dict.shape = "array"
    THEN \* an array is an object: keys `Bus_<n>` and `<n>` (index n) are read
         OrFixed(OptToFixed(Undef, 2), OptToFixed(At(dict.src, busNum + 1), 2))
    ELSE IF dict.shape = "object"
    THEN OrFixed(OptToFixed(At(dict.src.Bus_, busNum), 2),
                 OptToFixed(At(dict.src.plain, busNum), 2))
    ELSE [k |-> "N/A", val |-> 0]

LmpLine(lmp) == Line("LMP", lmp.k, 2, lmp.val)

\* final_causation_financials?.generator_details?.find(g => g.id === genId)
FindGenResult(result, genId) ==
    IF result.caus_generator_details = Absent THEN <<>>
    ELSE FindById(result.caus_generator_details[1], genId)

Highlighted(result, genId) ==
    /\ FindGenResult(result, genId) # <<>>
    /\ GreaterThanZero(Head(FindGenResult(result, genId)).security_charge)

\* The framework test of the generator branch.
ChargesSecurity(result) == result.simulation_type = "causation"

\* Variant of OverlayNode that writes the annotated label of a bus over its
\* stored base label too.
OverlayNodeOverwritingBase(node, result) ==
    IF node.id[1] = "bus"
    THEN [threw |-> FALSE,
          node |-> [node EXCEPT !.label = node.originalLabel \o <<Line("LMP", "N/A", 2, 0)>>,
                                !.originalLabel = node.originalLabel \o <<Line("LMP", "N/A", 2, 0)>>]]
    ELSE [threw |-> FALSE, node |-> node]

\* One step of nds.map(...): [threw, node].
OverlayNode(node, result) ==
    IF IdPrefix(node.id) = "bus"
    THEN LET lmp == ResolveLmp(result, BusNumOf(node.id)) IN
         [threw |-> lmp.k = "throw",
          node |-> [node EXCEPT !.label = node.originalLabel \o <<LmpLine(lmp)>>]]
    ELSE IF ChargesSecurity(result) /\ IdPrefix(node.id) = "gen"
    THEN IF Highlighted(result, node.id[2])
         THEN LET charge == MustToFixed(Head(FindGenResult(result, node.id[2])).security_charge, 0) IN
              [threw |-> charge.k = "throw",
               node |-> [node EXCEPT
                          !.label = node.originalLabel \o <<Line("SecCharge", charge.k, 0, charge.val)>>,
                          !.style = [node.style EXCEPT !.border = Border("3px", "red"), !.borderColor = "red"]]]
         ELSE [threw |-> FALSE,
               node |-> [node EXCEPT
                          \* borderColor: baseNodeStyles.generator.border.split(' ')[2]
                          !.style = [node.style EXCEPT !.border = baseNodeStyles("generator").border,
                                                       !.borderColor = baseNodeStyles("generator").border.c]]]
    ELSE [threw |-> FALSE, node |-> node]

\* financial_results?.line_details?.find(..) || operational_results?.line_details?.find(..)
FindLineResult(result, lineId) ==
    LET fin == IF result.fin_line_details = Absent THEN <<>>
               ELSE FindById(result.fin_line_details[1], lineId)
        op == IF result.op_line_details = Absent THEN <<>>
              ELSE FindById(result.op_line_details[1], lineId)
    IN IF fin # <<>> THEN fin ELSE op

\* Variant of loadingPercentage without Math.abs.
loadingPercentageSigned(flow, limit) ==
    IF GreaterThanZero(limit)
    THEN [n |-> ToNumber(flow).v, d |-> ToNumber(limit).v]
    ELSE [n |-> 0, d |-> 1]

\* Variant of loadingPercentage without the limit > 0 test.
loadingPercentageUnguarded(flow, limit) ==
    [n |-> Abs(ToNumber(flow).v), d |-> ToNumber(limit).v]

\* loadingPercentage = limit > 0 ? Math.abs(flow) / limit : 0, kept as the
\* fraction n / d (d > 0); Math.abs of a non-number coerces it (NaN as 0
\* here: every such flow makes flow.toFixed throw before the ratio is used).
loadingPercentage(flow, limit) ==
    IF GreaterThanZero(limit)
    THEN [n |-> Abs(ToNumber(flow).v), d |-> ToNumber(limit).v]
    ELSE [n |-> 0, d |-> 1]

\* ratio > p / 100
RatioAbove(ratio, p) == 100 * ratio.n > p * ratio.d

strokeColor(ratio) ==
    IF RatioAbove(ratio, 95) THEN "red"
    ELSE IF RatioAbove(ratio, 75) THEN "orange"
    ELSE "green"

\* Variant of strokeWidth without Math.max.
strokeWidthUnfloored(ratio) == [n |-> 5 * ratio.n, d |-> ratio.d]

\* Math.max(2, loadingPercentage * 5)
strokeWidth(ratio) ==
    IF 5 * ratio.n > 2 * ratio.d THEN [n |-> 5 * ratio.n, d |-> ratio.d] ELSE [n |-> 2, d |-> 1]

isAnimated(ratio) == IF RatioAbove(ratio, 75) THEN "true" ELSE "false"

\* One step of eds.map(...): [threw, edge].
OverlayEdge(edge, result) ==
    IF IdPrefix(edge.id) = "line" /\ FindLineResult(result, edge.id[2]) # <<>>
    THEN LET lineResult == Head(FindLineResult(result, edge.id[2]))
             ratio == loadingPercentage(lineResult.flow_mw, lineResult.flow_limit_mw)
             flowText == MustToFixed(lineResult.flow_mw, 1)
         IN [threw |-> flowText.k = "throw",
             edge |-> [edge EXCEPT
                        !.label = EdgeLabelSource(edge) \o <<Line("Flow", flowText.k, 1, flowText.val)>>,
                        !.style = [edge.style EXCEPT !.stroke = strokeColor(ratio),
                                                     !.strokeWidth = strokeWidth(ratio)],
                        !.animated = isAnimated(ratio)]]
    ELSE [threw |-> FALSE, edge |-> edge]

\* The overlay effect on a graph <<nds, eds>>: [threw, nodes, edges].  When an
\* updater throws the render is aborted and the graph state is not replaced.
OverlayEffect(nds, eds, result) ==
    IF ~Usable(result)
    THEN [threw |-> FALSE,
          nodes |-> [i \in 1..Len(nds) |-> ResetNode(nds[i])],
          edges |-> [i \in 1..Len(eds) |-> ResetEdge(eds[i])]]
    ELSE LET ns == [i \in 1..Len(nds) |-> OverlayNode(nds[i], result)]
             es == [i \in 1..Len(eds) |-> OverlayEdge(eds[i], result)]
             failed == (\E i \in 1..Len(nds) : ns[i].threw) \/ (\E i \in 1..Len(eds) : es[i].threw)
         IN IF failed THEN [threw |-> TRUE, nodes |-> nds, edges |-> eds]
            ELSE [threw |-> FALSE,
                  nodes |-> [i \in 1..Len(nds) |-> ns[i].node],
                  edges |-> [i \in 1..Len(eds) |-> es[i].edge]]

(***************************************************************************)
(* Inputs.  Scenario(nb, ng): nb buses (bus 2 carries a name), generators  *)
(* G1..G<ng> with generator i on bus i (an orphan when i > nb), one load   *)
(* on bus 1 and one line L1 from bus 1 to bus 2.                           *)
(***************************************************************************)
Scenario(nb, ng) ==
    [num_buses |-> nb,
     buses |-> <<[id |-> 2, name |-> "North"]>>,
     generator_data |-> [i \in 1..ng |-> [id |-> "G" \o ToString(i), bus_id |-> i, capacity_mw |-> 100]],
     load_data |-> <<[id |-> "D1", bus_id |-> 1, demand_mw |-> 80]>>,
     transmission_data |-> <<[id |-> "L1", from_bus_id |-> 1, to_bus_id |-> 2, flow_limit_mw |-> 100]>>]

Scenarios == {Scenario(nb, ng) : nb \in 0..MaxBuses, ng \in 0..MaxGens}

EmptyResult ==
    [status |-> "success", simulation_type |-> "undefined", framework_type |-> "traditional",
     fin_nodal_prices |-> Absent, op_nodal_prices |-> Absent,
     caus_generator_details |-> Absent,
     fin_line_details |-> Absent, op_line_details |-> Absent]

FailedResult == [EmptyResult EXCEPT !.status = "failure"]

\* Sequences over S of length 0..n
SeqsUpTo(S, n) == UNION {[1..k -> S] : k \in 0..n}

\* Price payloads: an array source of up to MaxBuses entries and / or a keyed
\* mapping holding the keys of bus 1 (Bus_1, 1); no bus 2 key is ever present.
PriceVals == {Num(0), Num(12345), Null}
KeyedVals == {Undef, Num(0), Num(25004)}
PriceArrays == {Absent} \cup {Some(arr) : arr \in SeqsUpTo(PriceVals, MaxBuses)}
KeyedMaps == {Absent} \cup {Some([Bus_ |-> <<a>>, plain |-> <<b>>]) : a \in KeyedVals, b \in KeyedVals}
WellFormedPriceResults ==
    {[EmptyResult EXCEPT !.op_nodal_prices = arr, !.fin_nodal_prices = keyed] :
        arr \in PriceArrays, keyed \in KeyedMaps}
MalformedPriceResults ==
    {[EmptyResult EXCEPT !.op_nodal_prices = Some(<<Num(12345), Str>>)],
     [EmptyResult EXCEPT !.fin_nodal_prices = Some([Bus_ |-> <<Str>>, plain |-> <<Num(0)>>])],
     [EmptyResult EXCEPT !.fin_nodal_prices = Some([Bus_ |-> <<Undef>>, plain |-> <<NumStr(25004)>>])]}
PriceResults == WellFormedPriceResults \cup MalformedPriceResults

\* Generator payloads: the framework tag under either field name, and a
\* generator_details list with at most one record per generator id.
ChargeVals == {Num(0), Num(10), Num(5400), NumStr(5400)}
GenRecords == {[id |-> "G" \o ToString(i), security_charge |-> c] : i \in 1..MaxGens, c \in ChargeVals}
GenDetailLists ==
    {Absent}
    \cup {Some(list) : list \in SeqsUpTo(GenRecords, 1)}
    \cup {Some(<<[id |-> "G1", security_charge |-> a], [id |-> "G2", security_charge |-> b]>>) :
            a \in ChargeVals, b \in ChargeVals}
FrameworkTags ==
    {[simulation_type |-> "causation", framework_type |-> "causation"],
     [simulation_type |-> "undefined", framework_type |-> "causation"],
     [simulation_type |-> "undefined", framework_type |-> "traditional"]}
GenResults ==
    {[EmptyResult EXCEPT !.simulation_type = tag.simulation_type,
                         !.framework_type = tag.framework_type,
                         !.caus_generator_details = details] :
        tag \in FrameworkTags, details \in GenDetailLists}

\* Line payloads: one record for L1 (after a record of another line), in the
\* financial or the operational section, or in both with different flows.
FlowVals == {Num(50000), Num(75000), Num(80000), Num(95000), Num(96000), Num(-80000), Num(-96000)}
LimitVals == {Num(100000), Num(0), Num(-100000)}
LineRecords ==
    {[id |-> "L1", flow_mw |-> f, flow_limit_mw |-> l] : f \in FlowVals, l \in LimitVals}
    \cup {[id |-> "L1", flow_mw |-> f, flow_limit_mw |-> Num(100000)] : f \in {Null, Str, Undef}}
OtherLine == [id |-> "L7", flow_mw |-> Num(99000), flow_limit_mw |-> Num(100000)]
LineResults ==
    {[EmptyResult EXCEPT !.fin_line_details = Some(<<OtherLine, rec>>)] : rec \in LineRecords}
    \cup {[EmptyResult EXCEPT !.op_line_details = Some(<<rec>>)] : rec \in LineRecords}
    \cup {[EmptyResult EXCEPT
             !.fin_line_details = Some(<<[id |-> "L1", flow_mw |-> Num(96000), flow_limit_mw |-> Num(100000)]>>),
             !.op_line_details = Some(<<[id |-> "L1", flow_mw |-> Num(50000), flow_limit_mw |-> Num(100000)]>>)],
          [EmptyResult EXCEPT !.fin_line_details = Some(<<OtherLine>>)],
          EmptyResult}

(***************************************************************************)
(* GridDisplay as a state machine.  Mount runs the build effect and then   *)
(* the overlay effect; a new result prop runs the overlay effect on the    *)
(* graph held; a new scenario prop runs both.  Once an updater has thrown  *)
(* the component is gone and takes no further props.                       *)
(***************************************************************************)
\* Variant of Mounted that pushes the new graph onto the graph held.
MountedAppending(scenario, result) ==
    OverlayEffect(nodes \o BuildNodes(scenario), edges \o BuildEdges(scenario), result)

\* The graph after both effects ran for (scenario, result).
Mounted(scenario, result) == OverlayEffect(BuildNodes(scenario), BuildEdges(scenario), result)

LabelsBounded ==
    /\ \A i \in 1..Len(nodes) : Len(nodes[i].label) < MaxLabelLines
    /\ \A i \in 1..Len(edges) : Len(edges[i].label) < MaxLabelLines

\* Before the first render: useNodesState([]) / useEdgesState([]), no props.
GridIdle ==
    /\ scenarioData = NoScenario
    /\ simulationResultData = NoResult
    /\ nodes = <<>>
    /\ edges = <<>>
    /\ threw = FALSE
    /\ onlySuccess = FALSE
    /\ mounted = FALSE

\* First render with props (scenario, result): both effects run.
Mount(scenarioSet, results) ==
    /\ ~mounted
    /\ mounted' = TRUE
    /\ \E s \in scenarioSet \cup {NoScenario}, r \in results \cup {NoResult} :
         /\ scenarioData' = s
         /\ simulationResultData' = r
         /\ nodes' = Mounted(s, r).nodes
         /\ edges' = Mounted(s, r).edges
         /\ threw' = Mounted(s, r).threw
         /\ onlySuccess' = Usable(r)
    /\ UNCHANGED <<cmpVars, viewerVars, loginVars, listVars, formVars>>

SupplyResult(results) ==
    /\ mounted
    /\ ~threw
    /\ LabelsBounded
    /\ \E r \in results \cup {NoResult, FailedResult} :
         /\ simulationResultData' = r
         /\ nodes' = OverlayEffect(nodes, edges, r).nodes
         /\ edges' = OverlayEffect(nodes, edges, r).edges
         /\ threw' = OverlayEffect(nodes, edges, r).threw
         /\ onlySuccess' = (onlySuccess /\ Usable(r))
    /\ UNCHANGED <<scenarioData, mounted, cmpVars, viewerVars, loginVars, listVars, formVars>>

ChangeScenario(scenarioSet) ==
    /\ mounted
    /\ ~threw
    /\ \E s \in scenarioSet \cup {NoScenario} :
         /\ s # scenarioData
         /\ scenarioData' = s
         /\ nodes' = Mounted(s, simulationResultData).nodes
         /\ edges' = Mounted(s, simulationResultData).edges
         /\ threw' = Mounted(s, simulationResultData).threw
         /\ onlySuccess' = Usable(simulationResultData)
    /\ UNCHANGED <<simulationResultData, mounted, cmpVars, viewerVars, loginVars, listVars, formVars>>

NoCharts == [absent |-> "charts"]

CmpIdle ==
    /\ traditionalResult = NoResult
    /\ causationResult = NoResult
    /\ charts = NoCharts

\* ScenarioResultsViewer before it is mounted: the useState initial values.
ViewerIdle ==
    /\ scenarioId = 0
    /\ simulationRuns = <<>>
    /\ isLoadingList = FALSE
    /\ listError = FALSE
    /\ selectedResultDetail = NoResult
    /\ isLoadingDetail = FALSE
    /\ detailError = FALSE
    /\ compareTradResultId = 0
    /\ compareCausResultId = 0
    /\ compareTradResultDetails = NoResult
    /\ compareCausResultDetails = NoResult
    /\ showComparisonView = FALSE
    /\ isLoadingCompare = FALSE
    /\ pending = <<>>

\* LoginForm as rendered first, with an empty localStorage.
LoginIdle ==
    /\ username = ""
    /\ password = ""
    /\ message = ""
    /\ localStorage = [emds_token |-> "null", emds_user_id |-> "null"]
    /\ onLoginSuccessCalls = <<>>
    /\ loginRequests = <<>>

NoProps == [absent |-> "props"]

\* ScenarioList before it is mounted: the useState initial values.
ListIdle ==
    /\ listProps = NoProps
    /\ scenarios = <<>>
    /\ isLoading = FALSE
    /\ error = FALSE
    /\ scenarioRequests = <<>>
    /\ issued = 0

\* ScenarioForm for a new scenario: empty item lists.
FormIdle ==
    /\ generators = <<>>
    /\ loads = <<>>
    /\ lines = <<>>

\* GridDisplay fed generator payloads (security charges).
Init == GridIdle /\ CmpIdle /\ ViewerIdle /\ LoginIdle /\ ListIdle /\ FormIdle
Next == Mount(Scenarios, GenResults) \/ SupplyResult(GenResults) \/ ChangeScenario(Scenarios)
Spec == Init /\ [][Next]_vars

\* GridDisplay fed nodal-price payloads.
BusScenarios == {Scenario(nb, 1) : nb \in 0..MaxBuses}
NextPrice == Mount(BusScenarios, PriceResults) \/ SupplyResult(PriceResults) \/ ChangeScenario(BusScenarios)
SpecPrice == Init /\ [][NextPrice]_vars

\* GridDisplay fed line-flow payloads.
NextLine == Mount(BusScenarios, LineResults) \/ SupplyResult(LineResults) \/ ChangeScenario(BusScenarios)
SpecLine == Init /\ [][NextLine]_vars

\* GridDisplay fed scenarios that vary one part of the topology at a time
\* around a base scenario: generator lists (attached, several on one bus,
\* orphans), load lists, line lists (one or both ends unresolved) and bus
\* metadata (missing, permuted, for a bus that does not exist).
OrphanBus == MaxBuses + 1
AttachBuses == {1, OrphanBus}
GenOn(busIds) ==
    [i \in 1..Len(busIds) |-> [id |-> "G" \o ToString(i), bus_id |-> busIds[i], capacity_mw |-> 100]]
LoadOn(busIds) ==
    [i \in 1..Len(busIds) |-> [id |-> "D" \o ToString(i), bus_id |-> busIds[i], demand_mw |-> 80]]
LineOn(ends) ==
    [i \in 1..Len(ends) |-> [id |-> "L" \o ToString(i), from_bus_id |-> ends[i][1],
                              to_bus_id |-> ends[i][2], flow_limit_mw |-> 100]]
TopoGenLists ==
    {GenOn(b) : b \in SeqsUpTo(AttachBuses, MaxGens)}
    \cup {GenOn(<<2, 1>>), GenOn(<<1, 2, 2, 1>>), GenOn(<<1, 1, 1, 1>>)}
TopoLoadLists == {LoadOn(b) : b \in {<<>>, <<OrphanBus>>, <<1, 1>>, <<2, 1>>, <<1, 2, 2, 1>>}}
TopoLineLists ==
    {LineOn(e) : e \in {<<>>, <<<<1, OrphanBus>>>>, <<<<OrphanBus, 1>>>>, <<<<0, OrphanBus>>>>,
                         <<<<1, 2>>, <<2, 1>>>>, <<<<1, 1>>>>}}
TopoBusLists ==
    {<<>>,
     <<[id |-> 1, name |-> "West"], [id |-> 2, name |-> "North"]>>,
     <<[id |-> 2, name |-> "North"], [id |-> 1, name |-> "West"]>>,
     <<[id |-> 2, name |-> ""], [id |-> OrphanBus, name |-> "Far"]>>}
TopoScenarios ==
    {[Scenario(nb, 0) EXCEPT !.generator_data = g] : nb \in 0..MaxBuses, g \in TopoGenLists}
    \cup {[Scenario(nb, 1) EXCEPT !.load_data = l] : nb \in 0..MaxBuses, l \in TopoLoadLists}
    \cup {[Scenario(nb, 1) EXCEPT !.transmission_data = t] : nb \in 0..MaxBuses, t \in TopoLineLists}
    \cup {[Scenario(nb, 1) EXCEPT !.buses = b] : nb \in 0..MaxBuses, b \in TopoBusLists}

\* One result that overlays buses, generators and lines, and one that holds
\* prices only.
FullResult ==
    [EmptyResult EXCEPT
        !.simulation_type = "causation", !.framework_type = "causation",
        !.op_nodal_prices = Some(<<Num(12345), Num(0)>>),
        !.caus_generator_details = Some(<<[id |-> "G1", security_charge |-> Num(5400)]>>),
        !.fin_line_details = Some(<<[id |-> "L1", flow_mw |-> Num(96000), flow_limit_mw |-> Num(100000)]>>)]
TopoResults ==
    {FullResult, EmptyResult,
     [EmptyResult EXCEPT !.fin_nodal_prices = Some([Bus_ |-> <<Num(25004)>>, plain |-> <<Undef>>])]}
NextTopo == Mount(TopoScenarios, TopoResults) \/ SupplyResult(TopoResults) \/ ChangeScenario(TopoScenarios)
SpecTopo == Init /\ [][NextTopo]_vars

\* The topology scenarios, and scenarios in which two generators or two
\* loads carry the same id.
DuplicateIdScenarios ==
    {[Scenario(MaxBuses, 0) EXCEPT
        !.generator_data = <<[id |-> "G2", bus_id |-> 1, capacity_mw |-> 100],
                             [id |-> "G2", bus_id |-> b, capacity_mw |-> 100]>>] : b \in AttachBuses}
    \cup {[Scenario(MaxBuses, 1) EXCEPT
        !.load_data = <<[id |-> "D1", bus_id |-> 1, demand_mw |-> 80],
                        [id |-> "D1", bus_id |-> 1, demand_mw |-> 80]>>]}
NextIds ==
    \/ Mount(TopoScenarios \cup DuplicateIdScenarios, TopoResults)
    \/ SupplyResult(TopoResults)
    \/ ChangeScenario(TopoScenarios \cup DuplicateIdScenarios)
SpecIds == Init /\ [][NextIds]_vars

\* GridDisplay mounted before the scenario has been loaded (the viewer holds
\* null until then): every graph is built by a change of the scenarioData
\* prop.
NextRebuild == Mount({}, TopoResults) \/ SupplyResult(TopoResults) \/ ChangeScenario(TopoScenarios)
SpecRebuild == Init /\ [][NextRebuild]_vars

(***************************************************************************)
(* ComparisonCharts: data preparation.                                     *)
(* A payload given to ComparisonCharts is a record of the sections the     *)
(* component reads, each optional:                                         *)
(*   fin_summary    financial_results.system_summary                       *)
(*   fin_gens       financial_results.generator_details                    *)
(*   fin_loads      financial_results.load_details                         *)
(*   caus_summary   final_causation_financials.system_summary              *)
(*   caus_gens      final_causation_financials.generator_details           *)
(*   base_cost      base_case_dispatch_solution (its total_cost)           *)
(*   base_loads     traditional_financials_for_base_case.load_details      *)
(* A JavaScript number of a chart row is [nan, v], v in thousandths.       *)
(***************************************************************************)
\* parseFloat(x): the number, the number a string starts with, else NaN.
parseFloat(x) ==
    IF x.t \in {"num", "numstr"} THEN [nan |-> FALSE, v |-> x.v] ELSE [nan |-> TRUE, v |-> 0]

Zero == [nan |-> FALSE, v |-> 0]

\* Variant of OrZero without the `|| 0` default.
OrZeroDropped(n) == n

\* n || 0 for a number n: NaN and 0 are falsy.
OrZero(n) == IF n.nan \/ n.v = 0 THEN Zero ELSE n

\* parseFloat(x) || 0
ParseOrZero(x) == OrZero(parseFloat(x))

\* section || {} / section || []: the section held, or the empty default.
SummaryOf(section) ==
    IF section = Absent
    THEN [total_dispatch_cost |-> Undef, total_generator_revenue |-> Undef,
          total_consumer_payment_for_energy |-> Undef, total_security_charges_collected |-> Undef]
    ELSE section[1]
ListOf(section) == IF section = Absent THEN <<>> ELSE section[1]

\* base_case_dispatch_solution?.total_cost
BaseCostOf(section) == IF section = Absent THEN Undef ELSE section[1]

\* Variant of Dedupe that keeps every id (an array in place of the Set).
DedupeKeepAll(ids, seen) == ids

RECURSIVE Dedupe(_, _)
\* Array.from(new Set(ids)): the distinct ids in order of first appearance
\* (seen is the set built so far).
Dedupe(ids, seen) ==
    IF ids = <<>> THEN <<>>
    ELSE IF Head(ids) \in seen THEN Dedupe(Tail(ids), seen)
    ELSE <<Head(ids)>> \o Dedupe(Tail(ids), seen \cup {Head(ids)})

IdsOf(list) == [i \in 1..Len(list) |-> list[i].id]

\* Variant of UnionIds that scans b's list before a's.
UnionIdsSecondFirst(a, b) == Dedupe(IdsOf(b) \o IdsOf(a), {})

\* new Set([...a.map(x => x.id), ...b.map(x => x.id)]) as an array
UnionIds(a, b) == Dedupe(IdsOf(a) \o IdsOf(b), {})

\* rec?.field for the record found (or not) by find
FieldOf(found, field) == IF found = <<>> THEN Undef ELSE found[1][field]

overallData(trad, caus) ==
    LET tradSysSummary == SummaryOf(trad.fin_summary)
        causSysSummary == SummaryOf(caus.caus_summary)
    IN <<[name |-> "Dispatch Cost",
          Traditional |-> ParseOrZero(tradSysSummary.total_dispatch_cost),
          Causation |-> ParseOrZero(BaseCostOf(caus.base_cost))],
         [name |-> "Gen Revenue",
          Traditional |-> ParseOrZero(tradSysSummary.total_generator_revenue),
          Causation |-> ParseOrZero(causSysSummary.total_generator_revenue)],
         [name |-> "Consumer Payment",
          Traditional |-> ParseOrZero(tradSysSummary.total_consumer_payment_for_energy),
          Causation |-> ParseOrZero(causSysSummary.total_consumer_payment_for_energy)],
         [name |-> "Security Charges",
          Traditional |-> Zero,
          Causation |-> ParseOrZero(causSysSummary.total_security_charges_collected)]>>

GeneratorRow(tradGenDetails, causGenDetails, id) ==
    LET tradGen == FindById(tradGenDetails, id)
        causGen == FindById(causGenDetails, id)
    IN [name |-> id,
        Traditional_Profit |-> ParseOrZero(FieldOf(tradGen, "profit")),
        Causation_Profit |-> ParseOrZero(FieldOf(causGen, "profit")),
        Traditional_SecCharge |-> Zero,
        Causation_SecCharge |-> ParseOrZero(FieldOf(causGen, "security_charge"))]

generatorProfitData(trad, caus) ==
    LET tradGenDetails == ListOf(trad.fin_gens)
        causGenDetails == ListOf(caus.caus_gens)
        generatorIds == UnionIds(tradGenDetails, causGenDetails)
    IN [i \in 1..Len(generatorIds) |-> GeneratorRow(tradGenDetails, causGenDetails, generatorIds[i])]

LoadRow(tradLoadDetails, causLoadDetails, id) ==
    LET tradLoad == FindById(tradLoadDetails, id)
        causLoad == FindById(causLoadDetails, id)
    IN [name |-> id,
        Traditional_Payment |-> ParseOrZero(FieldOf(tradLoad, "payment_for_energy")),
        Causation_Payment |-> ParseOrZero(FieldOf(causLoad, "payment_for_energy"))]

loadPaymentData(trad, caus) ==
    LET tradLoadDetails == ListOf(trad.fin_loads)
        causLoadDetails == ListOf(caus.base_loads)
        loadIds == UnionIds(tradLoadDetails, causLoadDetails)
    IN [i \in 1..Len(loadIds) |-> LoadRow(tradLoadDetails, causLoadDetails, loadIds[i])]

\* Variant of ComparisonCharts that keeps the rows of its previous render
\* for as long as both props are present.
ComparisonChartsRetaining(trad, caus) ==
    IF trad = NoResult \/ caus = NoResult THEN NoCharts
    ELSE IF charts # NoCharts THEN charts
    ELSE [overall |-> overallData(trad, caus),
          generators |-> generatorProfitData(trad, caus),
          loads |-> loadPaymentData(trad, caus)]

\* What the component computes for its props: nothing when either is missing.
ComparisonCharts(trad, caus) ==
    IF trad = NoResult \/ caus = NoResult THEN NoCharts
    ELSE [overall |-> overallData(trad, caus),
          generators |-> generatorProfitData(trad, caus),
          loads |-> loadPaymentData(trad, caus)]

(***************************************************************************)
(* ComparisonCharts as a state machine: the component re-renders whenever  *)
(* one of its two props is replaced.                                       *)
(***************************************************************************)
EmptyPayload ==
    [fin_summary |-> Absent, fin_gens |-> Absent, fin_loads |-> Absent,
     caus_summary |-> Absent, caus_gens |-> Absent, base_cost |-> Absent, base_loads |-> Absent]

FieldVals == {Num(1500), Num(0), NumStr(2500), Str, Null, Undef}
CmpGenIds == {"G1", "G2", "G3"}
CmpLoadIds == {"D1", "D2"}

\* Detail lists of well-formed records (any ids, repeated ids included) and
\* one-record lists whose fields range over FieldVals.
GenLists(profit) ==
    {Absent}
    \cup {Some(l) : l \in SeqsUpTo({[id |-> id, profit |-> Num(profit), security_charge |-> Num(300)] :
                                      id \in CmpGenIds}, MaxDetails)}
    \cup {Some(<<[id |-> "G2", profit |-> a, security_charge |-> Undef]>>) : a \in FieldVals}
    \cup {Some(<<[id |-> "G2", profit |-> Num(1500), security_charge |-> b]>>) : b \in FieldVals}
LoadLists(payment) ==
    {Some(l) : l \in SeqsUpTo({[id |-> id, payment_for_energy |-> Num(payment)] : id \in CmpLoadIds}, MaxDetails)}
    \cup {Some(<<[id |-> "D2", payment_for_energy |-> a]>>) : a \in FieldVals}
Summaries ==
    {Absent}
    \cup {Some([total_dispatch_cost |-> a, total_generator_revenue |-> a,
                total_consumer_payment_for_energy |-> Num(900),
                total_security_charges_collected |-> a]) : a \in FieldVals}

TradPayloads ==
    {[EmptyPayload EXCEPT !.fin_gens = g] : g \in GenLists(1000)}
    \cup {[EmptyPayload EXCEPT !.fin_loads = l] : l \in LoadLists(4000)}
    \cup {[EmptyPayload EXCEPT !.fin_summary = s] : s \in Summaries}
CausPayloads ==
    {[EmptyPayload EXCEPT !.caus_gens = g] : g \in GenLists(2000)}
    \cup {[EmptyPayload EXCEPT !.base_loads = l] : l \in LoadLists(5000)}
    \cup {[EmptyPayload EXCEPT !.caus_summary = s, !.base_cost = c] :
            s \in Summaries, c \in {Absent, Some(Num(7000)), Some(Str)}}

SetTraditionalResult ==
    /\ \E t \in TradPayloads \cup {NoResult} :
         /\ t # traditionalResult
         /\ traditionalResult' = t
         /\ charts' = ComparisonCharts(t, causationResult)
    /\ UNCHANGED <<causationResult, gridVars, viewerVars, loginVars, listVars, formVars>>

SetCausationResult ==
    /\ \E c \in CausPayloads \cup {NoResult} :
         /\ c # causationResult
         /\ causationResult' = c
         /\ charts' = ComparisonCharts(traditionalResult, c)
    /\ UNCHANGED <<traditionalResult, gridVars, viewerVars, loginVars, listVars, formVars>>

NextCmp == SetTraditionalResult \/ SetCausationResult
SpecCmp == Init /\ [][NextCmp]_vars

(***************************************************************************)
(* ScenarioResultsViewer.  A run is [id, framework_type, status]; the      *)
(* payload of run r, as returned by /api/simulations/results/<r>, is       *)
(* [id |-> r].  A request in flight is [kind, arg, type]: kind "list"      *)
(* (arg the scenario id), "compare" (arg the run id, type the slot) or     *)
(* "detail" (arg the run id).  Requests are answered in any order, each    *)
(* with success or failure.                                                *)
(***************************************************************************)
MaxListFetches == 2    \* list requests in flight at once

ScenarioIds == {1, 2}
RunsOf(sid) ==
    IF sid = 1
    THEN <<[id |-> 1, framework_type |-> "traditional", status |-> "success"],
           [id |-> 2, framework_type |-> "traditional", status |-> "success"],
           [id |-> 3, framework_type |-> "causation", status |-> "success"]>>
    ELSE <<[id |-> 4, framework_type |-> "causation", status |-> "success"],
           [id |-> 5, framework_type |-> "traditional", status |-> "failure"]>>
Payload(rid) == [id |-> rid]
Request(kind, arg, type) == [kind |-> kind, arg |-> arg, type |-> type]
Without(seq, i) == [k \in 1..(Len(seq) - 1) |-> IF k < i THEN seq[k] ELSE seq[k + 1]]
InFlight(kind) == {i \in 1..Len(pending) : pending[i].kind = kind}

\* Which branch of the render logic is taken.
View ==
    IF isLoadingList THEN "loading"
    ELSE IF listError THEN "error"
    ELSE IF showComparisonView THEN "comparison"
    ELSE IF selectedResultDetail # NoResult THEN "detail"
    ELSE "runs"

\* The payload of a slot as ComparisonCharts reads it: the loaded result
\* carries a system summary (its dispatch cost told apart by the run id).
ChartsInput(detail) ==
    IF detail = NoResult THEN NoResult
    ELSE [EmptyPayload EXCEPT
            !.fin_summary = Some([total_dispatch_cost |-> Num(1000 * detail.id),
                                  total_generator_revenue |-> Num(1500),
                                  total_consumer_payment_for_energy |-> Num(900),
                                  total_security_charges_collected |-> Undef]),
            !.base_cost = Some(Num(1000 * detail.id))]

\* What the comparison branch of the render logic shows: the charts of the
\* two slots, no charts while a comparison fetch runs or in another branch.
ComparisonView ==
    IF View = "comparison" /\ ~isLoadingCompare
    THEN ComparisonCharts(ChartsInput(compareTradResultDetails), ChartsInput(compareCausResultDetails))
    ELSE NoCharts

\* The fetchRuns effect for scenario sid, up to its request.
FetchRunsEffect(sid) ==
    /\ scenarioId' = sid
    /\ isLoadingList' = TRUE
    /\ listError' = FALSE
    /\ selectedResultDetail' = NoResult
    /\ compareTradResultId' = 0
    /\ compareCausResultId' = 0
    /\ compareTradResultDetails' = NoResult
    /\ compareCausResultDetails' = NoResult
    /\ showComparisonView' = FALSE
    /\ pending' = Append(pending, Request("list", sid, ""))
    /\ UNCHANGED <<simulationRuns, isLoadingDetail, detailError, isLoadingCompare>>
    /\ UNCHANGED <<gridVars, cmpVars, loginVars, listVars, formVars>>

ViewerMount ==
    /\ scenarioId = 0
    /\ \E sid \in ScenarioIds : FetchRunsEffect(sid)

\* The scenarioId prop changes: the effect runs again.
ChangeScenarioId ==
    /\ scenarioId # 0
    /\ Cardinality(InFlight("list")) < MaxListFetches
    /\ \E sid \in ScenarioIds \ {scenarioId} : FetchRunsEffect(sid)

\* The list request answers: try / catch / finally of fetchRuns.
FetchRunsDone ==
    \E i \in InFlight("list"), ok \in BOOLEAN :
        /\ pending' = Without(pending, i)
        /\ isLoadingList' = FALSE
        /\ IF ok THEN simulationRuns' = RunsOf(pending[i].arg) /\ UNCHANGED listError
                 ELSE listError' = TRUE /\ UNCHANGED simulationRuns
        /\ UNCHANGED <<scenarioId, selectedResultDetail, isLoadingDetail, detailError,
                       compareTradResultId, compareCausResultId, compareTradResultDetails,
                       compareCausResultDetails, showComparisonView, isLoadingCompare>>
        /\ UNCHANGED <<gridVars, cmpVars, loginVars, listVars, formVars>>

\* The payload loaded in the slot of this type.
LoadedIn(type) == IF type = "traditional" THEN compareTradResultDetails ELSE compareCausResultDetails
SelectedIn(type) == IF type = "traditional" THEN compareTradResultId ELSE compareCausResultId

\* Click on `Select for Compare` of a listed run (the button is enabled),
\* with the synchronous part of fetchResultDetailsCallback.
handleSelectForCompare ==
    /\ View = "runs"
    /\ ~isLoadingCompare
    /\ \E k \in 1..Len(simulationRuns) :
         LET run == simulationRuns[k] IN
         /\ run.status = "success"
         /\ run.framework_type \in {"traditional", "causation"}
         /\ run.id # SelectedIn(run.framework_type)
         /\ IF run.framework_type = "traditional"
            THEN compareTradResultId' = run.id /\ UNCHANGED compareCausResultId
            ELSE compareCausResultId' = run.id /\ UNCHANGED compareTradResultId
         /\ IF LoadedIn(run.framework_type) # NoResult /\ LoadedIn(run.framework_type).id = run.id
            THEN UNCHANGED <<isLoadingCompare, detailError, pending>>
            ELSE /\ isLoadingCompare' = TRUE
                 /\ detailError' = FALSE
                 /\ pending' = Append(pending, Request("compare", run.id, run.framework_type))
    /\ UNCHANGED <<scenarioId, simulationRuns, isLoadingList, listError, selectedResultDetail,
                   isLoadingDetail, compareTradResultDetails, compareCausResultDetails,
                   showComparisonView>>
    /\ UNCHANGED <<gridVars, cmpVars, loginVars, listVars, formVars>>

\* The request of fetchResultDetailsCallback answers.
FetchResultDetailsDone ==
    \E i \in InFlight("compare"), ok \in BOOLEAN :
        /\ pending' = Without(pending, i)
        /\ isLoadingCompare' = FALSE
        /\ IF ok /\ pending[i].type = "traditional"
           THEN compareTradResultDetails' = Payload(pending[i].arg)
                /\ UNCHANGED <<compareCausResultDetails, detailError>>
           ELSE IF ok
           THEN compareCausResultDetails' = Payload(pending[i].arg)
                /\ UNCHANGED <<compareTradResultDetails, detailError>>
           ELSE detailError' = TRUE
                /\ UNCHANGED <<compareTradResultDetails, compareCausResultDetails>>
        /\ UNCHANGED <<scenarioId, simulationRuns, isLoadingList, listError, selectedResultDetail,
                       isLoadingDetail, compareTradResultId, compareCausResultId, showComparisonView>>
        /\ UNCHANGED <<gridVars, cmpVars, loginVars, listVars, formVars>>

\* Click on `View Details` of a listed run, up to the request.
handleViewDetails ==
    /\ View = "runs"
    /\ ~isLoadingDetail
    /\ \E k \in 1..Len(simulationRuns) :
         pending' = Append(pending, Request("detail", simulationRuns[k].id, ""))
    /\ showComparisonView' = FALSE
    /\ isLoadingDetail' = TRUE
    /\ detailError' = FALSE
    /\ UNCHANGED <<scenarioId, simulationRuns, isLoadingList, listError, selectedResultDetail,
                   compareTradResultId, compareCausResultId, compareTradResultDetails,
                   compareCausResultDetails, isLoadingCompare>>
    /\ UNCHANGED <<gridVars, cmpVars, loginVars, listVars, formVars>>

\* The request of handleViewDetails answers.
ViewDetailsDone ==
    \E i \in InFlight("detail"), ok \in BOOLEAN :
        /\ pending' = Without(pending, i)
        /\ isLoadingDetail' = FALSE
        /\ IF ok THEN selectedResultDetail' = Payload(pending[i].arg) /\ UNCHANGED detailError
                 ELSE detailError' = TRUE /\ UNCHANGED selectedResultDetail
        /\ UNCHANGED <<scenarioId, simulationRuns, isLoadingList, listError,
                       compareTradResultId, compareCausResultId, compareTradResultDetails,
                       compareCausResultDetails, showComparisonView, isLoadingCompare>>
        /\ UNCHANGED <<gridVars, cmpVars, loginVars, listVars, formVars>>

handleBackToRunList ==
    /\ View = "detail"
    /\ selectedResultDetail' = NoResult
    /\ detailError' = FALSE
    /\ showComparisonView' = FALSE
    /\ UNCHANGED <<scenarioId, simulationRuns, isLoadingList, listError, isLoadingDetail,
                   compareTradResultId, compareCausResultId, compareTradResultDetails,
                   compareCausResultDetails, isLoadingCompare, pending>>
    /\ UNCHANGED <<gridVars, cmpVars, loginVars, listVars, formVars>>

\* Variant of handleShowComparison that opens the comparison view whatever
\* the slots hold.
handleShowComparisonUnguarded ==
    /\ View = "runs"
    /\ ~isLoadingCompare
    /\ showComparisonView' = TRUE
    /\ selectedResultDetail' = NoResult
    /\ UNCHANGED <<scenarioId, simulationRuns, isLoadingList, listError, isLoadingDetail, detailError,
                   compareTradResultId, compareCausResultId, compareTradResultDetails,
                   compareCausResultDetails, isLoadingCompare, pending>>
    /\ UNCHANGED <<gridVars, cmpVars, loginVars, listVars, formVars>>

\* Click on `Show Comparison Charts` (enabled with both payloads loaded and
\* no comparison fetch running).
handleShowComparison ==
    /\ View = "runs"
    /\ ~isLoadingCompare
    /\ compareTradResultDetails # NoResult /\ compareCausResultDetails # NoResult
    /\ showComparisonView' = TRUE
    /\ selectedResultDetail' = NoResult
    /\ UNCHANGED <<scenarioId, simulationRuns, isLoadingList, listError, isLoadingDetail, detailError,
                   compareTradResultId, compareCausResultId, compareTradResultDetails,
                   compareCausResultDetails, isLoadingCompare, pending>>
    /\ UNCHANGED <<gridVars, cmpVars, loginVars, listVars, formVars>>

\* `Back to Simulation Runs` of the comparison view.
BackFromComparison ==
    /\ View = "comparison"
    /\ showComparisonView' = FALSE
    /\ detailError' = FALSE
    /\ UNCHANGED <<scenarioId, simulationRuns, isLoadingList, listError, selectedResultDetail,
                   isLoadingDetail, compareTradResultId, compareCausResultId,
                   compareTradResultDetails, compareCausResultDetails, isLoadingCompare, pending>>
    /\ UNCHANGED <<gridVars, cmpVars, loginVars, listVars, formVars>>

\* `Clear` of the traditional slot (shown while a payload is loaded).
ClearTraditional ==
    /\ View = "runs"
    /\ compareTradResultDetails # NoResult
    /\ compareTradResultId' = 0
    /\ compareTradResultDetails' = NoResult
    /\ UNCHANGED <<scenarioId, simulationRuns, isLoadingList, listError, selectedResultDetail,
                   isLoadingDetail, detailError, compareCausResultId, compareCausResultDetails,
                   showComparisonView, isLoadingCompare, pending>>
    /\ UNCHANGED <<gridVars, cmpVars, loginVars, listVars, formVars>>

\* `Clear` of the causation slot.
ClearCausation ==
    /\ View = "runs"
    /\ compareCausResultDetails # NoResult
    /\ compareCausResultId' = 0
    /\ compareCausResultDetails' = NoResult
    /\ UNCHANGED <<scenarioId, simulationRuns, isLoadingList, listError, selectedResultDetail,
                   isLoadingDetail, detailError, compareTradResultId, compareTradResultDetails,
                   showComparisonView, isLoadingCompare, pending>>
    /\ UNCHANGED <<gridVars, cmpVars, loginVars, listVars, formVars>>

NextViewer ==
    \/ ViewerMount \/ ChangeScenarioId \/ FetchRunsDone
    \/ handleSelectForCompare \/ FetchResultDetailsDone
    \/ handleViewDetails \/ ViewDetailsDone \/ handleBackToRunList
    \/ handleShowComparison \/ BackFromComparison
    \/ ClearTraditional \/ ClearCausation
SpecViewer == Init /\ [][NextViewer]_vars

(***************************************************************************)
(* LoginForm.  A login request in flight is the body sent; the server      *)
(* answers it with an ok response carrying [token, user_id, username], a   *)
(* response that is not ok (with or without an error text), or not at all  *)
(* (fetch rejects).  A call of the onLoginSuccess prop is recorded as      *)
(* [args, token, user_id, username]: args is the number of arguments       *)
(* passed, and a parameter beyond them is "undefined".                     *)
(***************************************************************************)
MaxLoginRequests == 3    \* submits of the form in one behaviour

Usernames == {"testuser", "otheruser"}
Passwords == {"correctpassword", "wrongpassword"}
OkResponse(body) ==
    [kind |-> "ok", token |-> "test_token", user_id |-> 1, username |-> body.username, error |-> ""]
LoginResponses(body) ==
    {OkResponse(body),
     [kind |-> "not ok", token |-> "", user_id |-> 0, username |-> "", error |-> "Invalid credentials"],
     [kind |-> "not ok", token |-> "", user_id |-> 0, username |-> "", error |-> ""],
     [kind |-> "rejected", token |-> "", user_id |-> 0, username |-> "", error |-> ""]}

\* onChange of the two inputs.
TypeCredentials ==
    /\ \E u \in Usernames, pw \in Passwords :
         /\ <<u, pw>> # <<username, password>>
         /\ username' = u
         /\ password' = pw
    /\ UNCHANGED <<message, localStorage, onLoginSuccessCalls, loginRequests>>
    /\ UNCHANGED <<gridVars, cmpVars, viewerVars, listVars, formVars>>

\* handleSubmit up to the await of fetch (both inputs are `required`).
handleSubmit ==
    /\ username # "" /\ password # ""
    /\ Len(loginRequests) + Len(onLoginSuccessCalls) < MaxLoginRequests
    /\ message' = ""
    /\ loginRequests' = Append(loginRequests, [username |-> username, password |-> password])
    /\ UNCHANGED <<username, password, localStorage, onLoginSuccessCalls>>
    /\ UNCHANGED <<gridVars, cmpVars, viewerVars, listVars, formVars>>

\* handleSubmit after the await: the three outcomes of the request.
LoginResponse ==
    \E i \in 1..Len(loginRequests) : \E data \in LoginResponses(loginRequests[i]) :
        /\ loginRequests' = [k \in 1..(Len(loginRequests) - 1) |->
                                IF k < i THEN loginRequests[k] ELSE loginRequests[k + 1]]
        /\ IF data.kind = "ok"
           THEN /\ message' = "Login successful! User ID: " \o ToString(data.user_id)
                /\ localStorage' = [emds_token |-> data.token, emds_user_id |-> ToString(data.user_id)]
                /\ username' = ""
                /\ password' = ""
                /\ onLoginSuccessCalls' =
                     Append(onLoginSuccessCalls,
                            [args |-> 2, token |-> data.token, user_id |-> data.user_id,
                             username |-> "undefined"])
           ELSE /\ message' = IF data.kind = "rejected" THEN "Network error"
                              ELSE IF data.error # "" THEN "Error: " \o data.error
                              ELSE "Error: statusText"
                /\ UNCHANGED <<username, password, localStorage, onLoginSuccessCalls>>
        /\ UNCHANGED <<gridVars, cmpVars, viewerVars, listVars, formVars>>

NextLogin == TypeCredentials \/ handleSubmit \/ LoginResponse
SpecLogin == Init /\ [][NextLogin]_vars

(***************************************************************************)
(* ScenarioList.  The fetch effect runs on mount and whenever userId (or   *)
(* token) or refreshKey changes; every run with a user issues a request,   *)
(* and nothing cancels or ignores a request of an earlier run.  The server *)
(* answers the n-th request issued with the list it holds at that time     *)
(* (one scenario more at each refresh), or fails.                          *)
(***************************************************************************)
MaxScenarioFetches == 3    \* scenario-list requests issued, and refreshes, in one behaviour

ListUserIds == {0, 1, 2}   \* 0: no user (userId is falsy)

\* The response body of the n-th request, issued for user u.
ScenariosAt(u, n) == [i \in 1..n |-> [id |-> 10 * u + i]]

\* The effect for props p: clears the list without a user, else issues a
\* request (fetchScenarios up to its await).
FetchScenariosEffect(p) ==
    /\ listProps' = p
    /\ IF p.userId = 0
       THEN /\ scenarios' = <<>>
            /\ UNCHANGED <<isLoading, error, scenarioRequests, issued>>
       ELSE /\ isLoading' = TRUE
            /\ error' = FALSE
            /\ issued' = issued + 1
            /\ scenarioRequests' = Append(scenarioRequests, [n |-> issued + 1, userId |-> p.userId])
            /\ UNCHANGED scenarios
    /\ UNCHANGED <<gridVars, cmpVars, viewerVars, loginVars, formVars>>

ListMount ==
    /\ listProps = NoProps
    /\ \E u \in ListUserIds : FetchScenariosEffect([userId |-> u, refreshKey |-> 0])

\* The parent increments refreshKey (a scenario was saved or deleted).
ChangeRefreshKey ==
    /\ listProps # NoProps
    /\ issued < MaxScenarioFetches
    /\ listProps.refreshKey < MaxScenarioFetches
    /\ FetchScenariosEffect([listProps EXCEPT !.refreshKey = @ + 1])

\* The userId prop changes (login, logout).
ChangeUserId ==
    /\ listProps # NoProps
    /\ issued < MaxScenarioFetches
    /\ \E u \in ListUserIds \ {listProps.userId} :
         FetchScenariosEffect([listProps EXCEPT !.userId = u])

\* A request answers: try / catch / finally of fetchScenarios.
FetchScenariosDone ==
    \E i \in 1..Len(scenarioRequests), ok \in BOOLEAN :
        /\ scenarioRequests' = Without(scenarioRequests, i)
        /\ isLoading' = FALSE
        /\ IF ok THEN scenarios' = ScenariosAt(scenarioRequests[i].userId, scenarioRequests[i].n)
                      /\ UNCHANGED error
                 ELSE error' = TRUE /\ UNCHANGED scenarios
        /\ UNCHANGED <<listProps, issued>>
        /\ UNCHANGED <<gridVars, cmpVars, viewerVars, loginVars, formVars>>

NextList == ListMount \/ ChangeRefreshKey \/ ChangeUserId \/ FetchScenariosDone
SpecList == Init /\ [][NextList]_vars

(***************************************************************************)
(* ScenarioForm: the item lists of a new scenario.  An item is the record  *)
(* its factory makes; the id is made from the length of the list.          *)
(***************************************************************************)
MaxItems == 3    \* items of one kind in the form

\* addItem: setter(prev => [...prev, itemFactory(prev.length)]); made is what
\* the factory returns for prev.length.
addItem(prev, made) == Append(prev, made)

\* removeItem: setter(prev => prev.filter((_, i) => i !== index)), 0-based
removeItem(prev, index) == SelectSeq([i \in 1..Len(prev) |-> [at |-> i - 1, item |-> prev[i]]],
                                     LAMBDA e : e.at # index)

Items(kept) == [i \in 1..Len(kept) |-> kept[i].item]

GeneratorFactory(len) == [id |-> "G" \o ToString(len + 1), bus_id |-> 1, capacity_mw |-> 0]
LoadFactory(len) == [id |-> "L" \o ToString(len + 1), bus_id |-> 1, demand_mw |-> 0]
LineFactory(len) == [id |-> "T" \o ToString(len + 1), from_bus_id |-> 1, to_bus_id |-> 2, flow_limit_mw |-> 0]

addGenerator ==
    /\ Len(generators) < MaxItems
    /\ generators' = addItem(generators, GeneratorFactory(Len(generators)))
    /\ UNCHANGED <<loads, lines, gridVars, cmpVars, viewerVars, loginVars, listVars>>

addLoad ==
    /\ Len(loads) < MaxItems
    /\ loads' = addItem(loads, LoadFactory(Len(loads)))
    /\ UNCHANGED <<generators, lines, gridVars, cmpVars, viewerVars, loginVars, listVars>>

addLine ==
    /\ Len(lines) < MaxItems
    /\ lines' = addItem(lines, LineFactory(Len(lines)))
    /\ UNCHANGED <<generators, loads, gridVars, cmpVars, viewerVars, loginVars, listVars>>

\* The Remove button of the item at index.
removeGenerator ==
    /\ \E index \in 0..(Len(generators) - 1) : generators' = Items(removeItem(generators, index))
    /\ UNCHANGED <<loads, lines, gridVars, cmpVars, viewerVars, loginVars, listVars>>

removeLoad ==
    /\ \E index \in 0..(Len(loads) - 1) : loads' = Items(removeItem(loads, index))
    /\ UNCHANGED <<generators, lines, gridVars, cmpVars, viewerVars, loginVars, listVars>>

removeLine ==
    /\ \E index \in 0..(Len(lines) - 1) : lines' = Items(removeItem(lines, index))
    /\ UNCHANGED <<generators, loads, gridVars, cmpVars, viewerVars, loginVars, listVars>>

\* The scenario the form hands to GridDisplay (currentScenarioStateForViz),
\* under the initial grid configuration.
currentScenarioStateForViz ==
    [num_buses |-> 0, buses |-> <<>>,
     generator_data |-> generators, load_data |-> loads, transmission_data |-> lines]

NextForm == addGenerator \/ addLoad \/ addLine \/ removeGenerator \/ removeLoad \/ removeLine
SpecForm == Init /\ [][NextForm]_vars

(***************************************************************************)
(* Properties.                                                             *)
(***************************************************************************)
\* The style as painted: the base entries, the border width and the border
\* colour (borderColor, listed after border, overrides the colour of border).
Painted(style) ==
    [base |-> style.base, width |-> style.border.w,
     color |-> IF style.borderColor = "unset" THEN style.border.c ELSE style.borderColor]
NodeView(n) == [id |-> n.id, label |-> n.label, style |-> Painted(n.style)]
EdgeView(e) == [id |-> e.id, label |-> e.label, style |-> e.style]
GraphView(nds, eds) ==
    <<[i \in 1..Len(nds) |-> NodeView(nds[i])], [i \in 1..Len(eds) |-> EdgeView(eds[i])]>>

BusNodes == {i \in 1..Len(nodes) : IdPrefix(nodes[i].id) = "bus"}
GenNodes == {i \in 1..Len(nodes) : IdPrefix(nodes[i].id) = "gen"}
LineEdgeIxs == {i \in 1..Len(edges) : IdPrefix(edges[i].id) = "line"}
Overlaid == ~threw /\ Usable(simulationResultData)

\* C1 (overlay reset): whenever the result held is absent or not a success,
\* every node and edge has the label and style of the graph of the same
\* scenario to which no successful result was ever supplied.
OverlayReset ==
    (~threw /\ ~Usable(simulationResultData))
        => GraphView(nodes, edges)
             = GraphView(Mounted(scenarioData, NoResult).nodes, Mounted(scenarioData, NoResult).edges)

\* C2 (no drift): after a sequence of successful results supplied to the
\* same graph, every node and edge has the label and style obtained by
\* applying only the last result to the freshly built graph.
NoDrift ==
    (~threw /\ onlySuccess)
        => GraphView(nodes, edges)
             = GraphView(Mounted(scenarioData, simulationResultData).nodes,
                         Mounted(scenarioData, simulationResultData).edges)

\* The number a price source holds for bus n, as <<v>>, or <<>> when it holds
\* no number for that bus.
ArrayPrice(result, n) ==
    IF result.op_nodal_prices # Absent /\ At(result.op_nodal_prices[1], n).t = "num"
    THEN <<At(result.op_nodal_prices[1], n).v>> ELSE <<>>
KeyedPrice(result, n) ==
    IF result.fin_nodal_prices = Absent THEN <<>>
    ELSE IF At(result.fin_nodal_prices[1].Bus_, n).t = "num"
    THEN <<At(result.fin_nodal_prices[1].Bus_, n).v>>
    ELSE IF At(result.fin_nodal_prices[1].Bus_, n).t \in {"undef", "null"}
            /\ At(result.fin_nodal_prices[1].plain, n).t = "num"
    THEN <<At(result.fin_nodal_prices[1].plain, n).v>>
    ELSE <<>>
PriceLabel(node, v) == node.originalLabel \o <<Line("LMP", "fixed", 2, toFixed(v, 2))>>
SourcesDisagree(result, n) ==
    /\ ArrayPrice(result, n) # <<>>
    /\ KeyedPrice(result, n) # <<>>
    /\ toFixed(ArrayPrice(result, n)[1], 2) # toFixed(KeyedPrice(result, n)[1], 2)

IsHighlighted(node) ==
    /\ node.style.border = Border("3px", "red")
    /\ \E k \in 1..Len(node.label) : node.label[k].tag = "SecCharge"

\* The generator's record has a security_charge that is a number above 0.
HasPositiveCharge(result, genId) ==
    /\ result.caus_generator_details # Absent
    /\ FindById(result.caus_generator_details[1], genId) # <<>>
    /\ FindById(result.caus_generator_details[1], genId)[1].security_charge.t = "num"
    /\ FindById(result.caus_generator_details[1], genId)[1].security_charge.v > 0

\* C4 (security-charge highlight): under a successful result of the interface
\* shape (framework tag in framework_type) tagged "causation", a generator
\* node is highlighted exactly when its record's security_charge is above 0.
SecurityChargeHighlight ==
    (Overlaid /\ onlySuccess
       /\ simulationResultData.framework_type = "causation"
       /\ simulationResultData.simulation_type = "undefined")
        => \A i \in GenNodes :
             IsHighlighted(nodes[i]) <=> HasPositiveCharge(simulationResultData, nodes[i].id[2])

\* C5 (bus label): under a successful result every bus label is the base
\* label followed by a price with 2 decimals, and by N/A whenever no source
\* holds a number for that bus.
BusLabelUnderSuccess ==
    Overlaid =>
        \A i \in BusNodes :
            LET n == BusNumOf(nodes[i].id)
                last == nodes[i].label[Len(nodes[i].label)]
            IN /\ nodes[i].label = nodes[i].originalLabel \o <<last>>
               /\ last.tag = "LMP"
               /\ last.txt \in {"fixed", "N/A"}
               /\ (ArrayPrice(simulationResultData, n) = <<>> /\ KeyedPrice(simulationResultData, n) = <<>>)
                     => last.txt = "N/A"

\* Bus n's price field is present and is not a number / null (a string).
MalformedPrice(result, n) ==
    \/ result.op_nodal_prices # Absent /\ At(result.op_nodal_prices[1], n).t \in {"str", "numstr"}
    \/ result.fin_nodal_prices # Absent
         /\ \/ At(result.fin_nodal_prices[1].Bus_, n).t \in {"str", "numstr"}
            \/ At(result.fin_nodal_prices[1].plain, n).t \in {"str", "numstr"}

\* C6 (per-entity isolation): a successful result with a malformed price
\* raises no error, the bus concerned shows N/A, and every other bus shows
\* the overlay of its own price.
MalformedIsolated ==
    Usable(simulationResultData) =>
        /\ ~threw
        /\ \A i \in BusNodes :
             LET n == BusNumOf(nodes[i].id) IN
             IF MalformedPrice(simulationResultData, n)
             THEN nodes[i].label = nodes[i].originalLabel \o <<Line("LMP", "N/A", 2, 0)>>
             ELSE Len(nodes[i].label) = Len(nodes[i].originalLabel) + 1

\* The first record of line lineId in the result (financial section first),
\* as <<rec>>, when its flow and limit are numbers; <<>> otherwise.
NumericLineRecord(result, lineId) ==
    LET fin == IF result.fin_line_details = Absent THEN <<>>
               ELSE SelectSeq(result.fin_line_details[1], LAMBDA r : r.id = lineId)
        op == IF result.op_line_details = Absent THEN <<>>
              ELSE SelectSeq(result.op_line_details[1], LAMBDA r : r.id = lineId)
        all == fin \o op
    IN IF all # <<>> /\ all[1].flow_mw.t = "num" /\ all[1].flow_limit_mw.t = "num"
       THEN <<all[1]>> ELSE <<>>

\* C7 (congestion tiering): a line edge whose record has limit > 0 is, with
\* ratio = |flow| / limit, red and animated above 0.95, orange and animated
\* above 0.75 up to 0.95, green and not animated up to 0.75.
CongestionTiering ==
    Overlaid =>
        \A i \in LineEdgeIxs :
            LET found == NumericLineRecord(simulationResultData, edges[i].id[2]) IN
            (found # <<>> /\ found[1].flow_limit_mw.v > 0) =>
                LET a == Abs(found[1].flow_mw.v)
                    l == found[1].flow_limit_mw.v
                IN /\ (100 * a > 95 * l)
                        => edges[i].style.stroke = "red" /\ edges[i].animated = "true"
                   /\ (100 * a > 75 * l /\ 100 * a <= 95 * l)
                        => edges[i].style.stroke = "orange" /\ edges[i].animated = "true"
                   /\ (100 * a <= 75 * l)
                        => edges[i].style.stroke = "green" /\ edges[i].animated = "false"

\* A line with limit 100 carrying a flow of -96 is drawn in the alert tier.
CongestionTieringWitness ==
    /\ Overlaid
    /\ \E i \in LineEdgeIxs :
         LET found == NumericLineRecord(simulationResultData, edges[i].id[2]) IN
         /\ found # <<>>
         /\ found[1].flow_mw.v = -96000 /\ found[1].flow_limit_mw.v = 100000
         /\ edges[i].style.stroke = "red" /\ edges[i].animated = "true"

\* C8 (zero or negative limit): a line edge whose record has limit <= 0 has
\* ratio 0 whatever the flow: green, the minimum width 2, not animated.
NonPositiveLimit ==
    Overlaid =>
        \A i \in LineEdgeIxs :
            LET found == NumericLineRecord(simulationResultData, edges[i].id[2]) IN
            (found # <<>> /\ found[1].flow_limit_mw.v <= 0) =>
                /\ edges[i].style.stroke = "green"
                /\ edges[i].style.strokeWidth = [n |-> 2, d |-> 1]
                /\ edges[i].animated = "false"

NonPositiveLimitWitness ==
    /\ Overlaid
    /\ \E i \in LineEdgeIxs :
         LET found == NumericLineRecord(simulationResultData, edges[i].id[2]) IN
         /\ found # <<>>
         /\ found[1].flow_mw.v = 96000 /\ found[1].flow_limit_mw.v = 0
         /\ edges[i].style.stroke = "green" /\ edges[i].animated = "false"

Rendered == charts # NoCharts
IdSet(section) == {ListOf(section)[i].id : i \in 1..Len(ListOf(section))}
RowNames(rows) == {rows[i].name : i \in 1..Len(rows)}

\* C9 (reconciliation completeness): for each metric family the row ids are
\* exactly the union of the ids of framework A's and framework B's lists,
\* one row per distinct id.
ReconciliationComplete ==
    Rendered =>
        /\ RowNames(charts.generators)
             = IdSet(traditionalResult.fin_gens) \cup IdSet(causationResult.caus_gens)
        /\ Cardinality(RowNames(charts.generators)) = Len(charts.generators)
        /\ RowNames(charts.loads)
             = IdSet(traditionalResult.fin_loads) \cup IdSet(causationResult.base_loads)
        /\ Cardinality(RowNames(charts.loads)) = Len(charts.loads)

\* A = <<G1, G2>> and B = <<G2, G3>> give exactly the rows G1, G2, G3.
ReconciliationCompleteWitness ==
    /\ Rendered
    /\ IdsOf(ListOf(traditionalResult.fin_gens)) = <<"G1", "G2">>
    /\ IdsOf(ListOf(causationResult.caus_gens)) = <<"G2", "G3">>
    /\ Len(charts.generators) = 3
    /\ RowNames(charts.generators) = {"G1", "G2", "G3"}

\* The field of the first record with this id holds no parsable number
\* (the id is not in the list, the field is missing, or it does not parse).
NoNumber(section, id, field) ==
    LET hits == SelectSeq(ListOf(section), LAMBDA r : r.id = id) IN
    hits = <<>> \/ hits[1][field].t \in {"undef", "null", "str"}
Unparsable(x) == x.t \in {"undef", "null", "str"}
IsNumber(n) == n.nan = FALSE /\ n.v \in Int

\* C10 (total-safe values): every value of every comparison row is a number
\* and never NaN; it is 0 when the id is absent from that framework's
\* list, when the field is missing and when the field does not parse.
TotalSafe ==
    Rendered =>
        /\ \A i \in 1..Len(charts.generators) :
             LET r == charts.generators[i] IN
             /\ IsNumber(r.Traditional_Profit) /\ IsNumber(r.Causation_Profit)
             /\ IsNumber(r.Traditional_SecCharge) /\ IsNumber(r.Causation_SecCharge)
             /\ NoNumber(traditionalResult.fin_gens, r.name, "profit") => r.Traditional_Profit = Zero
             /\ NoNumber(causationResult.caus_gens, r.name, "profit") => r.Causation_Profit = Zero
             /\ NoNumber(causationResult.caus_gens, r.name, "security_charge") => r.Causation_SecCharge = Zero
        /\ \A i \in 1..Len(charts.loads) :
             LET r == charts.loads[i] IN
             /\ IsNumber(r.Traditional_Payment) /\ IsNumber(r.Causation_Payment)
             /\ NoNumber(traditionalResult.fin_loads, r.name, "payment_for_energy") => r.Traditional_Payment = Zero
             /\ NoNumber(causationResult.base_loads, r.name, "payment_for_energy") => r.Causation_Payment = Zero
        /\ \A i \in 1..Len(charts.overall) :
             IsNumber(charts.overall[i].Traditional) /\ IsNumber(charts.overall[i].Causation)
        /\ (traditionalResult.fin_summary = Absent
              \/ Unparsable(SummaryOf(traditionalResult.fin_summary).total_dispatch_cost))
             => charts.overall[1].Traditional = Zero
        /\ (causationResult.base_cost = Absent \/ Unparsable(causationResult.base_cost[1]))
             => charts.overall[1].Causation = Zero
        /\ (causationResult.caus_summary = Absent
              \/ Unparsable(SummaryOf(causationResult.caus_summary).total_security_charges_collected))
             => charts.overall[4].Causation = Zero

\* A generator row whose traditional profit is a non-numeric string and
\* whose id is absent from the causation list: both values are 0.
TotalSafeWitness ==
    /\ Rendered
    /\ \E i \in 1..Len(charts.generators) :
         LET r == charts.generators[i] IN
         /\ SelectSeq(ListOf(traditionalResult.fin_gens), LAMBDA g : g.id = r.name) # <<>>
         /\ SelectSeq(ListOf(traditionalResult.fin_gens), LAMBDA g : g.id = r.name)[1].profit = Str
         /\ SelectSeq(ListOf(causationResult.caus_gens), LAMBDA g : g.id = r.name) = <<>>
         /\ ListOf(causationResult.caus_gens) # <<>>
         /\ r.Traditional_Profit = Zero
         /\ r.Causation_Profit = Zero

\* Position of the first occurrence of id in the sequence ids.
FirstIndex(ids, id) == CHOOSE i \in 1..Len(ids) : ids[i] = id /\ \A j \in 1..(i - 1) : ids[j] # id

\* rows are in order of first appearance of their name in ids.
InFirstAppearanceOrder(rows, ids) ==
    \A i \in 1..Len(rows) : \A j \in (i + 1)..Len(rows) :
        /\ \E k \in 1..Len(ids) : ids[k] = rows[i].name
        /\ \E k \in 1..Len(ids) : ids[k] = rows[j].name
        /\ FirstIndex(ids, rows[i].name) < FirstIndex(ids, rows[j].name)

\* C11 (row order): the rows of each metric family are in order of first
\* appearance of their id in the traditional list followed by the causation
\* list, so ids found only in the causation list come after all traditional ids.
RowOrder ==
    Rendered =>
        /\ InFirstAppearanceOrder(charts.generators,
                IdsOf(ListOf(traditionalResult.fin_gens)) \o IdsOf(ListOf(causationResult.caus_gens)))
        /\ InFirstAppearanceOrder(charts.loads,
                IdsOf(ListOf(traditionalResult.fin_loads)) \o IdsOf(ListOf(causationResult.base_loads)))

\* A = <<G2, G1>> and B = <<G3, G2>> give the rows G2, G1, G3 in that order.
RowOrderWitness ==
    /\ Rendered
    /\ IdsOf(ListOf(traditionalResult.fin_gens)) = <<"G2", "G1">>
    /\ IdsOf(ListOf(causationResult.caus_gens)) = <<"G3", "G2">>
    /\ [i \in 1..Len(charts.generators) |-> charts.generators[i].name] = <<"G2", "G1", "G3">>

\* What the build effect fixes of a graph: ids, positions, base labels and
\* base style entries of the nodes; ids, endpoints, type and base label of
\* the edges.
NodeTopology(n) ==
    [id |-> n.id, position |-> n.position, originalLabel |-> n.originalLabel, base |-> n.style.base]
EdgeTopology(e) ==
    [id |-> e.id, source |-> e.source, target |-> e.target, type |-> e.type,
     originalLabel |-> e.originalLabel]
Topology(nds, eds) ==
    <<[i \in 1..Len(nds) |-> NodeTopology(nds[i])], [i \in 1..Len(eds) |-> EdgeTopology(eds[i])]>>

\* C12 (topology idempotence): whatever scenarios were built and whatever
\* results were supplied before, the graph held has the ids, positions, base
\* labels and base styles of the graph built from the current scenario alone.
TopologyIdempotent ==
    mounted => Topology(nodes, edges)
                 = Topology(BuildNodes(scenarioData), BuildEdges(scenarioData))

\* A graph with an orphan generator, carrying an overlay, equal in topology
\* to the fresh build of its scenario.
TopologyIdempotentWitness ==
    /\ mounted /\ Overlaid
    /\ scenarioData # NoScenario
    /\ scenarioData.num_buses = 2
    /\ scenarioData.generator_data = GenOn(<<1, OrphanBus>>)
    /\ \E i \in BusNodes : nodes[i].label # nodes[i].originalLabel
    /\ Topology(nodes, edges) = Topology(BuildNodes(scenarioData), BuildEdges(scenarioData))

Built == mounted /\ scenarioData # NoScenario
Resolves(busNum) == busNum \in 1..scenarioData.num_buses
NodesWithId(id) == {k \in 1..Len(nodes) : nodes[k].id = id}
EdgesWithId(id) == {k \in 1..Len(edges) : edges[k].id = id}
EdgesTouching(id) == {k \in 1..Len(edges) : edges[k].source = id \/ edges[k].target = id}

\* The entity with this node id, at (0-based) index in its own array, is
\* drawn once, at the fallback position of that index on the row `side` of
\* the bus axis, and touches no edge.
DrawnAsOrphan(id, index, side) ==
    /\ Cardinality(NodesWithId(id)) = 1
    /\ \A k \in NodesWithId(id) :
         nodes[k].position = [x |-> 50 + index * 160, y |-> BUS_Y_POSITION + side * GEN_LOAD_Y_OFFSET]
    /\ EdgesTouching(id) = {}

\* C13 (orphan policy): a generator or load whose bus_id is outside
\* 1..num_buses has exactly one node, at the fallback position given by its
\* index in its own array, and no edge has that node as an endpoint.
OrphanPolicy ==
    Built =>
        /\ \A i \in 1..Len(scenarioData.generator_data) :
             ~Resolves(scenarioData.generator_data[i].bus_id)
                => DrawnAsOrphan(<<"gen", scenarioData.generator_data[i].id>>, i - 1, -1)
        /\ \A i \in 1..Len(scenarioData.load_data) :
             ~Resolves(scenarioData.load_data[i].bus_id)
                => DrawnAsOrphan(<<"load", scenarioData.load_data[i].id>>, i - 1, 1)

\* Two buses, G1 on bus 1 and G2 on an unknown bus: G2 is drawn at (210, 80)
\* without an edge, while G1 has its connection edge.
OrphanPolicyWitness ==
    /\ Built
    /\ scenarioData.num_buses = 2
    /\ scenarioData.generator_data = GenOn(<<1, OrphanBus>>)
    /\ \E k \in NodesWithId(<<"gen", "G2">>) : nodes[k].position = [x |-> 210, y |-> 80]
    /\ EdgesTouching(<<"gen", "G2">>) = {}
    /\ EdgesTouching(<<"gen", "G1">>) # {}

\* C14 (line edges need two endpoints): the edge line-<id> exists, once,
\* exactly when from_bus_id and to_bus_id both lie in 1..num_buses, and then
\* joins those two bus nodes; a line never produces a node.
LineNeedsBothEnds ==
    Built =>
        /\ \A k \in 1..Len(scenarioData.transmission_data) :
             LET line == scenarioData.transmission_data[k]
                 id == <<"line", line.id>>
             IN /\ (EdgesWithId(id) # {}) <=> (Resolves(line.from_bus_id) /\ Resolves(line.to_bus_id))
                /\ Cardinality(EdgesWithId(id)) <= 1
                /\ \A e \in EdgesWithId(id) :
                     /\ edges[e].source = <<"bus", ToString(line.from_bus_id)>>
                     /\ edges[e].target = <<"bus", ToString(line.to_bus_id)>>
        /\ \A k \in 1..Len(nodes) : nodes[k].id[1] \in {"bus", "gen", "load"}

\* Two buses and a line from bus 1 to an unknown bus: no line edge is drawn.
LineNeedsBothEndsWitness ==
    /\ Built
    /\ scenarioData.num_buses = 2
    /\ scenarioData.transmission_data = LineOn(<<<<1, OrphanBus>>>>)
    /\ EdgesWithId(<<"line", "L1">>) = {}
    /\ NodesWithId(<<"bus", "1">>) # {}

\* The name of the metadata entry with id n, "" when there is none.
BusMetaName(n) ==
    LET hits == {k \in 1..Len(scenarioData.buses) : scenarioData.buses[k].id = n}
    IN IF hits = {} THEN "" ELSE scenarioData.buses[CHOOSE k \in hits : TRUE].name

\* C15 (bus synthesis): there is exactly one node bus-n for every n in
\* 1..num_buses and no other bus node; its base label is `Bus n`, with the
\* name of the metadata entry whose id is n, wherever that entry sits.
BusSynthesis ==
    Built =>
        /\ \A n \in 1..scenarioData.num_buses :
             /\ Cardinality(NodesWithId(<<"bus", ToString(n)>>)) = 1
             /\ \A k \in NodesWithId(<<"bus", ToString(n)>>) :
                  nodes[k].originalLabel = <<Line("Bus", BusMetaName(n), 0, n)>>
        /\ Cardinality(BusNodes) = scenarioData.num_buses

\* Metadata listed as bus 2 then bus 1: bus-1 is labelled West, bus-2 North.
BusSynthesisWitness ==
    /\ Built
    /\ scenarioData.num_buses = 2
    /\ scenarioData.buses = <<[id |-> 2, name |-> "North"], [id |-> 1, name |-> "West"]>>
    /\ \E k \in NodesWithId(<<"bus", "1">>) : nodes[k].originalLabel = <<Line("Bus", "West", 0, 1)>>
    /\ \E k \in NodesWithId(<<"bus", "2">>) : nodes[k].originalLabel = <<Line("Bus", "North", 0, 2)>>

\* C16 (overlay frame): a step that supplies a result (the scenario stays
\* the same) leaves the sequence of node ids, every position and stored base
\* label, the sequence of edge ids and every source and target as they were;
\* only label, style and animation fields change.
OverlayFrame ==
    [][(mounted /\ scenarioData' = scenarioData)
         => Topology(nodes', edges') = Topology(nodes, edges)]_vars

\* After a result was supplied to a built graph: a line edge is annotated
\* and animated, and the graph still has the topology of its scenario.
OverlayFrameWitness ==
    /\ Built /\ Overlaid /\ ~onlySuccess
    /\ \E i \in LineEdgeIxs : edges[i].animated = "true" /\ edges[i].label # edges[i].originalLabel
    /\ \E i \in GenNodes : nodes[i].label # nodes[i].originalLabel
    /\ Topology(nodes, edges) = Topology(BuildNodes(scenarioData), BuildEdges(scenarioData))

LastWriteWins ==
    ~isLoadingCompare =>
        /\ compareTradResultDetails # NoResult => compareTradResultDetails.id = compareTradResultId
        /\ compareCausResultDetails # NoResult => compareCausResultDetails.id = compareCausResultId

\* C19 (login outcome): a token is stored exactly when onLoginSuccess was
\* called; every call passes the token, the user id and the username of the
\* ok response, and these are the token and user id stored; after a
\* response that is not ok an error message is shown.
LoginOutcome ==
    /\ (localStorage.emds_token # "null") <=> (onLoginSuccessCalls # <<>>)
    /\ \A k \in 1..Len(onLoginSuccessCalls) :
         /\ onLoginSuccessCalls[k].args = 3
         /\ onLoginSuccessCalls[k].token = localStorage.emds_token
         /\ ToString(onLoginSuccessCalls[k].user_id) = localStorage.emds_user_id
         /\ onLoginSuccessCalls[k].username \in Usernames
    /\ (onLoginSuccessCalls = <<>> /\ loginRequests = <<>>)
         => message \in {"", "Network error", "Error: Invalid credentials", "Error: statusText"}

\* Number of entries before the i-th of list that are attached to the same
\* bus: its (0-based) position within its sibling group.
GroupIndex(list, i) == Cardinality({k \in 1..(i - 1) : list[k].bus_id = list[i].bus_id})
GroupSize(list, i) == Cardinality({k \in 1..Len(list) : list[k].bus_id = list[i].bus_id})

\* The node `id` sits at the place of sibling number groupIndex of bus
\* busNum, on the row `side` (-1 above, 1 below) of the bus.
PlacedInGroup(id, busNum, groupIndex, side) ==
    \A k \in NodesWithId(id) : \A b \in NodesWithId(<<"bus", ToString(busNum)>>) :
        nodes[k].position = [x |-> nodes[b].position.x + ((groupIndex % 3) - 1) * 60,
                             y |-> nodes[b].position.y + side * GEN_LOAD_Y_OFFSET]

\* The entries of list attached to one resolved bus, when they are at most
\* three, are drawn at pairwise distinct positions.
SiblingsApart(prefix, list) ==
    \A i \in 1..Len(list) : \A j \in (i + 1)..Len(list) :
        (list[i].bus_id = list[j].bus_id /\ Resolves(list[i].bus_id) /\ GroupSize(list, i) <= 3)
            => \A a \in NodesWithId(<<prefix, list[i].id>>) : \A b \in NodesWithId(<<prefix, list[j].id>>) :
                 nodes[a].position # nodes[b].position

\* C20 (sibling-group placement): a generator (load) on a resolved bus is
\* placed GEN_LOAD_Y_OFFSET above (below) the bus, at the horizontal offset
\* of its position within the generators (loads) of that bus modulo 3; so
\* up to three generators (loads) of one bus are at distinct positions.
SiblingPlacement ==
    Built =>
        /\ \A i \in 1..Len(scenarioData.generator_data) :
             LET gen == scenarioData.generator_data[i] IN
             Resolves(gen.bus_id)
                => PlacedInGroup(<<"gen", gen.id>>, gen.bus_id, GroupIndex(scenarioData.generator_data, i), -1)
        /\ \A i \in 1..Len(scenarioData.load_data) :
             LET load == scenarioData.load_data[i] IN
             Resolves(load.bus_id)
                => PlacedInGroup(<<"load", load.id>>, load.bus_id, GroupIndex(scenarioData.load_data, i), 1)
        /\ SiblingsApart("gen", scenarioData.generator_data)
        /\ SiblingsApart("load", scenarioData.load_data)

\* The connection edges (type smoothstep) that have the node `id` as an
\* endpoint.
ConnectionsOf(id) == {k \in EdgesTouching(id) : edges[k].type = "smoothstep"}

\* C21 (connection edges): a generator or load has a connection edge exactly
\* when its bus_id lies in 1..num_buses, and then exactly one: from the
\* generator's node to that bus's node, from that bus's node to the load's
\* node.
ConnectionEdges ==
    Built =>
        /\ \A i \in 1..Len(scenarioData.generator_data) :
             LET gen == scenarioData.generator_data[i]
                 id == <<"gen", gen.id>>
             IN /\ Cardinality(ConnectionsOf(id)) = IF Resolves(gen.bus_id) THEN 1 ELSE 0
                /\ \A k \in ConnectionsOf(id) :
                     /\ edges[k].source = id
                     /\ edges[k].target = <<"bus", ToString(gen.bus_id)>>
                     /\ NodesWithId(edges[k].target) # {}
        /\ \A i \in 1..Len(scenarioData.load_data) :
             LET load == scenarioData.load_data[i]
                 id == <<"load", load.id>>
             IN /\ Cardinality(ConnectionsOf(id)) = IF Resolves(load.bus_id) THEN 1 ELSE 0
                /\ \A k \in ConnectionsOf(id) :
                     /\ edges[k].source = <<"bus", ToString(load.bus_id)>>
                     /\ edges[k].target = id
                     /\ NodesWithId(edges[k].source) # {}

\* Two buses, G1 on bus 1 and G2 on an unknown bus, load D1 on bus 1:
\* gen-G1 -> bus-1, bus-1 -> load-D1, and nothing at gen-G2.
ConnectionEdgesWitness ==
    /\ Built
    /\ scenarioData.num_buses = 2
    /\ scenarioData.generator_data = GenOn(<<1, OrphanBus>>)
    /\ scenarioData.load_data = LoadOn(<<1>>)
    /\ \E k \in 1..Len(edges) : edges[k].source = <<"gen", "G1">> /\ edges[k].target = <<"bus", "1">>
    /\ \E k \in 1..Len(edges) : edges[k].source = <<"bus", "1">> /\ edges[k].target = <<"load", "D1">>
    /\ ConnectionsOf(<<"gen", "G2">>) = {}

\* The price the resolution yields for bus n: that of the keyed mapping when
\* the result carries one, else that of the array; <<>> when it yields none.
ResolvedPrice(result, n) ==
    IF result.fin_nodal_prices # Absent THEN KeyedPrice(result, n) ELSE ArrayPrice(result, n)

LastLine(label) == label[Len(label)]

RECURSIVE Gcd(_, _)
Gcd(a, b) == IF b = 0 THEN a ELSE Gcd(b, a % b)
LowestTerms(f) == [n |-> f.n \div Gcd(f.n, f.d), d |-> f.d \div Gcd(f.n, f.d)]
FractionLeq(a, b) == LowestTerms(a).n * LowestTerms(b).d <= LowestTerms(b).n * LowestTerms(a).d

\* The loading ratio of a numeric line record: |flow| / limit, 0 when the
\* limit is not positive.
RatioOfRecord(rec) ==
    IF rec.flow_limit_mw.v > 0 THEN [n |-> Abs(rec.flow_mw.v), d |-> rec.flow_limit_mw.v]
    ELSE [n |-> 0, d |-> 1]

\* Every line edge is at least 2 wide, and exactly 2 wide while no
\* successful result is held.
WidthFloor ==
    \A i \in LineEdgeIxs :
        /\ FractionLeq([n |-> 2, d |-> 1], edges[i].style.strokeWidth)
        /\ ~Usable(simulationResultData) => edges[i].style.strokeWidth = [n |-> 2, d |-> 1]

\* A step from one annotated graph to another of the same scenario: a line
\* whose loading ratio does not decrease does not get thinner, and one whose
\* ratio does not increase does not get wider.
WidthFollowsRatio ==
    (Overlaid /\ Overlaid' /\ scenarioData' = scenarioData) =>
        \A i \in LineEdgeIxs :
            LET old == NumericLineRecord(simulationResultData, edges[i].id[2])
                new == NumericLineRecord(simulationResultData', edges[i].id[2])
            IN (old # <<>> /\ new # <<>>) =>
                 /\ FractionLeq(RatioOfRecord(old[1]), RatioOfRecord(new[1]))
                       => FractionLeq(edges[i].style.strokeWidth, edges'[i].style.strokeWidth)
                 /\ FractionLeq(RatioOfRecord(new[1]), RatioOfRecord(old[1]))
                       => FractionLeq(edges'[i].style.strokeWidth, edges[i].style.strokeWidth)

\* C23 (stroke width): the width of a line edge is never below 2, the base
\* width, and is a non-decreasing function of the loading ratio of the line's
\* record.
StrokeWidthMonotone == [](WidthFloor) /\ [][WidthFollowsRatio]_vars

\* A line in the alert tier (flow 96 of 100) drawn wider than the base
\* width: 4.8.
StrokeWidthMonotoneWitness ==
    /\ Overlaid
    /\ \E i \in LineEdgeIxs :
         LET found == NumericLineRecord(simulationResultData, edges[i].id[2]) IN
         /\ found # <<>>
         /\ found[1].flow_mw.v = 96000 /\ found[1].flow_limit_mw.v = 100000
         /\ FractionLeq(edges[i].style.strokeWidth, [n |-> 48, d |-> 10])
         /\ FractionLeq([n |-> 48, d |-> 10], edges[i].style.strokeWidth)

\* The node ids and edge ids a scenario calls for.
ExpectedNodeIds(s) ==
    {<<"bus", ToString(n)>> : n \in 1..s.num_buses}
    \cup {<<"gen", s.generator_data[i].id>> : i \in 1..Len(s.generator_data)}
    \cup {<<"load", s.load_data[i].id>> : i \in 1..Len(s.load_data)}
ExpectedEdgeIds(s) ==
    {<<"edge", "gen", s.generator_data[i].id, "bus", ToString(s.generator_data[i].bus_id)>> :
        i \in {k \in 1..Len(s.generator_data) : s.generator_data[k].bus_id \in 1..s.num_buses}}
    \cup {<<"edge", "load", s.load_data[i].id, "bus", ToString(s.load_data[i].bus_id)>> :
        i \in {k \in 1..Len(s.load_data) : s.load_data[k].bus_id \in 1..s.num_buses}}
    \cup {<<"line", s.transmission_data[i].id>> :
        i \in {k \in 1..Len(s.transmission_data) :
                  /\ s.transmission_data[k].from_bus_id \in 1..s.num_buses
                  /\ s.transmission_data[k].to_bus_id \in 1..s.num_buses}}

\* The graph <<nds, eds>> holds the nodes and edges of scenario s and no
\* other.
ExactlyOf(s, nds, eds) ==
    /\ {nds[k].id : k \in 1..Len(nds)} = ExpectedNodeIds(s)
    /\ Len(nds) = s.num_buses + Len(s.generator_data) + Len(s.load_data)
    /\ {eds[k].id : k \in 1..Len(eds)} = ExpectedEdgeIds(s)
    /\ Len(eds) = Cardinality(ExpectedEdgeIds(s))

\* The graph <<nds, eds>> carries one overlay of result r on base labels:
\* one price line on every bus, at most one charge line on a generator,
\* nothing on a load, and on a line edge one flow line exactly when r has a
\* record for the line (else the base label and the base style).
FreshOverlay(r, nds, eds) ==
    /\ \A k \in 1..Len(nds) :
         LET extra == SubSeq(nds[k].label, Len(nds[k].originalLabel) + 1, Len(nds[k].label)) IN
         /\ nds[k].label = nds[k].originalLabel \o extra
         /\ nds[k].id[1] = "bus" => Len(extra) = 1 /\ extra[1].tag = "LMP"
         /\ nds[k].id[1] = "gen" => Len(extra) <= 1 /\ \A j \in 1..Len(extra) : extra[j].tag = "SecCharge"
         /\ nds[k].id[1] = "load" => extra = <<>>
    /\ \A k \in 1..Len(eds) :
         LET extra == SubSeq(eds[k].label, Len(eds[k].originalLabel) + 1, Len(eds[k].label)) IN
         /\ eds[k].label = eds[k].originalLabel \o extra
         /\ eds[k].id[1] = "edge" => extra = <<>>
         /\ eds[k].id[1] = "line" =>
               IF NumericLineRecord(r, eds[k].id[2]) # <<>>
               THEN Len(extra) = 1 /\ extra[1].tag = "Flow"
               ELSE extra = <<>> /\ eds[k].style.stroke = "#888" /\ eds[k].animated = "unset"

\* What a change of the scenario leaves behind.
RebuiltOnChange ==
    (mounted /\ scenarioData' # scenarioData) =>
        IF scenarioData' = NoScenario
        THEN nodes' = <<>> /\ edges' = <<>>
        ELSE Usable(simulationResultData) =>
               /\ simulationResultData' = simulationResultData
               /\ ExactlyOf(scenarioData', nodes', edges')
               /\ FreshOverlay(simulationResultData, nodes', edges')

\* C24 (full rebuild on scenario change): after the scenario changed while
\* a successful result is held, the graph has exactly the nodes and edges of
\* the new scenario, with one overlay of the held result on their base
\* labels; after the scenario became absent the graph is empty.
FullRebuild == [][RebuiltOnChange]_vars

\* A graph built by a scenario change under the held full result: two
\* buses with their price lines and the line L1 with its single flow line.
FullRebuildWitness ==
    /\ Built /\ Overlaid /\ onlySuccess
    /\ scenarioData.num_buses = 2
    /\ simulationResultData = FullResult
    /\ ExactlyOf(scenarioData, nodes, edges)
    /\ FreshOverlay(simulationResultData, nodes, edges)
    /\ \E k \in EdgesWithId(<<"line", "L1">>) : Len(edges[k].label) = Len(edges[k].originalLabel) + 1

\* C25 (comparison needs both slots): the comparison view is open only
\* with both payloads loaded; while a slot is empty (pending, failed or
\* cleared) no comparison rows are shown, and the reconciler handed the two
\* slots yields no rows either.
ComparisonNeedsBoth ==
    /\ showComparisonView
          => compareTradResultDetails # NoResult /\ compareCausResultDetails # NoResult
    /\ (compareTradResultDetails = NoResult \/ compareCausResultDetails = NoResult)
          => /\ ComparisonView = NoCharts
             /\ ComparisonCharts(ChartsInput(compareTradResultDetails),
                                 ChartsInput(compareCausResultDetails)) = NoCharts
    /\ ComparisonView # NoCharts => Len(ComparisonView.overall) = 4

\* The traditional slot is loaded and the fetch for the causation slot has
\* failed: the run list is shown, without comparison rows.
ComparisonNeedsBothWitness ==
    /\ compareTradResultDetails # NoResult
    /\ compareCausResultId # 0 /\ compareCausResultDetails = NoResult
    /\ ~isLoadingCompare /\ detailError
    /\ View = "runs"
    /\ ComparisonView = NoCharts

\* C26 (detail view and comparison view are mutually exclusive): the
\* comparison view flag is never set while a selected result detail is held.
DetailExcludesComparison ==
    ~(showComparisonView /\ selectedResultDetail # NoResult)

\* The slot of this type shows `Loading...`: a run id is selected and no
\* payload is loaded.
SlotLoading(type) == SelectedIn(type) # 0 /\ LoadedIn(type) = NoResult
FetchInFlightFor(type) == \E i \in InFlight("compare") : pending[i].type = type

\* The `Select for Compare` button of the run selected for this slot is
\* shown and enabled.
CanSelectAgain(type) ==
    /\ View = "runs"
    /\ \E k \in 1..Len(simulationRuns) :
         /\ simulationRuns[k].id = SelectedIn(type)
         /\ simulationRuns[k].framework_type = type
         /\ simulationRuns[k].status = "success"
         /\ ~(isLoadingCompare \/ simulationRuns[k].id = SelectedIn(type))

\* C27 (`Loading...` only while fetching): a slot that shows `Loading...`
\* has a fetch in flight, or else (the fetch has failed) the same run can be
\* selected again.
LoadingOnlyWhileFetching ==
    \A type \in {"traditional", "causation"} :
        SlotLoading(type) => FetchInFlightFor(type) \/ CanSelectAgain(type)

\* C28 (the scenario list shows the latest fetch): once every request has
\* completed, none of them has failed and a user is set, the list shown is
\* the response to the request issued last and the loading flag is false.
LatestFetchShown ==
    (listProps # NoProps /\ scenarioRequests = <<>> /\ issued > 0 /\ ~error)
        => /\ ~isLoading
           /\ listProps.userId # 0 => scenarios = ScenariosAt(listProps.userId, issued)

\* The ids of the items of a list are pairwise distinct.
DistinctIds(items) ==
    \A i \in 1..Len(items) : \A j \in 1..Len(items) : items[i].id = items[j].id => i = j

\* C29 (auto-assigned ids stay unique): after any sequence of Add and Remove
\* clicks from the empty form, the generator ids are pairwise distinct, so
\* are the load ids and the line ids, and the graph built from the form has
\* no two nodes with the same id.
AutoIdsUnique ==
    /\ DistinctIds(generators)
    /\ DistinctIds(loads)
    /\ DistinctIds(lines)
    /\ DistinctIds(BuildNodes(currentScenarioStateForViz))

\* C30 (no dangling edges): whatever scenarios and results were supplied,
\* the source and the target of every edge are ids of nodes held, and the
\* node ids are pairwise distinct when the scenario's generator ids are and
\* its load ids are.
NoDanglingEdges ==
    mounted =>
        /\ \A k \in 1..Len(edges) :
             NodesWithId(edges[k].source) # {} /\ NodesWithId(edges[k].target) # {}
        /\ (scenarioData # NoScenario
              /\ DistinctIds(scenarioData.generator_data) /\ DistinctIds(scenarioData.load_data))
             => DistinctIds(nodes)

\* After a result was supplied: two buses, G1 on bus 1, G2 on an unknown
\* bus and the line L1; the graph has the edges of G1, of the load and of L1,
\* all between nodes held, and no edge for G2.
NoDanglingEdgesWitness ==
    /\ Built /\ Overlaid /\ ~onlySuccess
    /\ scenarioData.num_buses = 2
    /\ scenarioData.generator_data = GenOn(<<1, OrphanBus>>)
    /\ Len(edges) = 3
    /\ \A k \in 1..Len(edges) :
         NodesWithId(edges[k].source) # {} /\ NodesWithId(edges[k].target) # {}
    /\ EdgesTouching(<<"gen", "G2">>) = {}
    /\ DistinctIds(nodes)

====
